---------------------------- MODULE Spec2Model ----------------------------
(***************************************************************************)
(* A model of the pqueue package: the PQueue container (pqueue.go) and the *)
(* sorting algorithms it dispatches to (algorithms.go).                    *)
(*                                                                         *)
(* An element of type T is a record [k, id]: k is the key the comparator   *)
(* reads, id tells apart two elements whose keys are equal.  A Go int is   *)
(* its value alone, so every int element has id 0.  Buffers are sequences; *)
(* the code's 0-based index i is position i+1 (Get, Set).                  *)
(***************************************************************************)
EXTENDS Integers, Sequences, FiniteSets, Bags, TLC

\* ------------------------------------------------------------------ values

El(key, ident) == [k |-> key, id |-> ident]

\* The zero value of T, which make([]T, n) fills a new buffer with.
Zero == El(0, 0)

Get(d, i) == d[i + 1]

Set(d, i, v) == [d EXCEPT ![i + 1] = v]

Swap(d, i, j) == [d EXCEPT ![i + 1] = d[j + 1], ![j + 1] = d[i + 1]]

\* The comparators a caller passes to New: NewInts' a < b ("asc"), and the
\* descending order a > b ("desc") of the README's custom-comparator example.
Comparators == {"asc", "desc"}

Less(lt, a, b) == IF lt = "asc" THEN a.k < b.k ELSE a.k > b.k

\* Go's integer division truncates toward zero and % takes the dividend's sign.
GoDiv(a, b) == IF a >= 0 THEN a \div b ELSE -((-a) \div b)

GoMod(a, b) == a - b * GoDiv(a, b)

DataTypes == {"IntegerType", "FloatType", "StringType", "SliceType", "ArrayType",
              "StructType", "MapType", "PointerType", "InterfaceType",
              "ChannelType", "FuncType", "GenericType"}

Strategies == {"AutoStrategy", "RadixStrategy", "CountingStrategy",
               "InsertionStrategy", "TimsortStrategy", "IntrosortStrategy",
               "MergeStrategy", "QuickStrategy"}

\* The Go types T the model instantiates PQueue[T] with.
ElemTypes == {"int", "int16", "int64", "uint", "float64", "string", "slice",
              "array", "struct", "map", "ptr", "chan", "func"}

\* reflect.Value.Int() returns for the signed integer kinds and panics for
\* every other kind.
SignedKinds == {"int", "int16", "int64"}

IntegerKinds == SignedKinds \cup {"uint"}

\* The kinds getMaxInt reads: reflect.Int, reflect.Int64 and reflect.Int32.
MaxIntKinds == {"int", "int64"}

\* ------------------------------------------------------- program constants

SmallArrayMax == 16

IntegerMinN == 100

LargeN == 1000

IntroInsertionMax == 16

MinMerge == 32

RadixBase == 10

CountingMaxRange == 10000

SmallRangeMax == 1000

NearlySortedDivisor == 10

\* ------------------------------------------------------------------- loops

\* TLC evaluates an operator's argument when it is first read, so a loop that
\* only passed its state on would pile up the pending steps of all its
\* iterations.  Evaluated(s) has a loop state (a sequence, a function or a
\* record) worked out before the loop goes on.
Evaluated(s) == DOMAIN s = DOMAIN s

\* Every loop of the code is an operator XLoop(s, lo, hi, ...) that runs the
\* iterations lo..hi-1 in order on the state s: none when hi <= lo, the loop's
\* body when hi = lo + 1, and otherwise the iterations lo..Mid-1 followed by the
\* iterations Mid..hi-1.  The body of a loop with a condition leaves the state
\* alone once the condition is false, and hi - lo bounds its iterations.
Mid(lo, hi) == lo + ((hi - lo) \div 2)

\* ------------------------------------------------------------ insertion sort

RECURSIVE ShiftLoop(_, _, _, _, _, _)
\* for j >= low && less(key, data[j]) { data[j+1] = data[j]; j-- } on [d, j]
ShiftLoop(u, lo, hi, key, low, lt) ==
    IF hi <= lo THEN u
    ELSE IF hi = lo + 1
         THEN IF u.j >= low /\ Less(lt, key, Get(u.d, u.j))
              THEN [d |-> Set(u.d, u.j + 1, Get(u.d, u.j)), j |-> u.j - 1]
              ELSE u
    ELSE LET first == ShiftLoop(u, lo, Mid(lo, hi), key, low, lt)
         IN  IF Evaluated(first) THEN ShiftLoop(first, Mid(lo, hi), hi, key, low, lt)
             ELSE first

RECURSIVE ShiftPastEqualLoop(_, _, _, _, _, _)
\* The shifting loop with the condition !less(data[j], key): it also moves the
\* key past the elements equivalent to it.
ShiftPastEqualLoop(u, lo, hi, key, low, lt) ==
    IF hi <= lo THEN u
    ELSE IF hi = lo + 1
         THEN IF u.j >= low /\ ~Less(lt, Get(u.d, u.j), key)
              THEN [d |-> Set(u.d, u.j + 1, Get(u.d, u.j)), j |-> u.j - 1]
              ELSE u
    ELSE LET first == ShiftPastEqualLoop(u, lo, Mid(lo, hi), key, low, lt)
         IN  IF Evaluated(first)
             THEN ShiftPastEqualLoop(first, Mid(lo, hi), hi, key, low, lt)
             ELSE first

InsertPastEqual(d, i, low, lt) ==
    LET key == Get(d, i)
        t   == ShiftPastEqualLoop([d |-> d, j |-> i - 1], 0, i - low, key, low, lt)
    IN  Set(t.d, t.j + 1, key)

\* key := data[i]; j := i - 1; the shifting loop; data[j+1] = key
Insert(d, i, low, lt) ==
    LET key == Get(d, i)
        t   == ShiftLoop([d |-> d, j |-> i - 1], 0, i - low, key, low, lt)
    IN  Set(t.d, t.j + 1, key)

RECURSIVE InsertLoop(_, _, _, _, _)
\* for i := lo; i < hi; i++ { insert data[i] into data[low..i-1] }
InsertLoop(d, lo, hi, low, lt) ==
    IF hi <= lo THEN d
    ELSE IF hi = lo + 1 THEN Insert(d, lo, low, lt)
    ELSE LET first == InsertLoop(d, lo, Mid(lo, hi), low, lt)
         IN  IF Evaluated(first) THEN InsertLoop(first, Mid(lo, hi), hi, low, lt)
             ELSE first

\* for i := 1; i < pq.size; i++
insertionSort(d, n, lt) == InsertLoop(d, 1, n, 0, lt)

\* insertionSortRange with the bound i < high in place of i <= high: the last
\* element of the range is never inserted.
insertionSortRangeShort(d, low, high, lt) == InsertLoop(d, low + 1, high, low, lt)

\* for i := low + 1; i <= high; i++
insertionSortRange(d, low, high, lt) == InsertLoop(d, low + 1, high + 1, low, lt)

\* ----------------------------------------------------------------- quicksort

RECURSIVE PartitionLoop(_, _, _, _, _)
\* for j := low; j < high; j++: an element less than, or equivalent to, the
\* pivot is swapped into the low region; the state is [d, i]
PartitionLoop(u, lo, hi, pivot, lt) ==
    IF hi <= lo THEN u
    ELSE IF hi = lo + 1
         THEN IF \/ Less(lt, Get(u.d, lo), pivot)
                 \/ (~Less(lt, pivot, Get(u.d, lo)) /\ ~Less(lt, Get(u.d, lo), pivot))
              THEN [d |-> Swap(u.d, u.i + 1, lo), i |-> u.i + 1]
              ELSE u
    ELSE LET first == PartitionLoop(u, lo, Mid(lo, hi), pivot, lt)
         IN  IF Evaluated(first) THEN PartitionLoop(first, Mid(lo, hi), hi, pivot, lt)
             ELSE first

\* pivot := data[high]; i := low - 1; the loop; swap(data[i+1], data[high])
partition(d, low, high, lt) ==
    LET t == PartitionLoop([d |-> d, i |-> low - 1], low, high, Get(d, high), lt)
    IN  [d |-> Swap(t.d, t.i + 1, high), pi |-> t.i + 1]

\* One call of quickSortRange, for the range on top of the stack of pending
\* calls; its two recursive calls are pushed, the left one on top.
QuickCall(u, lt) ==
    LET low  == Head(u.stack)[1]
        high == Head(u.stack)[2]
    IN  IF low < high
        THEN LET p == partition(u.d, low, high, lt)
             IN  [d |-> p.d,
                  stack |-> <<(<<low, p.pi - 1>>), (<<p.pi + 1, high>>)>> \o Tail(u.stack)]
        ELSE [d |-> u.d, stack |-> Tail(u.stack)]

RECURSIVE QuickLoop(_, _, _, _)
\* The pending calls of quickSortRange, made until none is left.
QuickLoop(u, lo, hi, lt) ==
    IF hi <= lo THEN u
    ELSE IF hi = lo + 1
         THEN IF u.stack # << >> THEN QuickCall(u, lt) ELSE u
    ELSE LET first == QuickLoop(u, lo, Mid(lo, hi), lt)
         IN  IF Evaluated(first) THEN QuickLoop(first, Mid(lo, hi), hi, lt)
             ELSE first

\* The recursion of quickSortRange is as deep as the range is long on a sorted
\* input, so the calls are kept on a stack and made in the order the recursion
\* makes them: a call, all of its left call, all of its right call.  A range of
\* m elements takes at most 2m + 1 calls.
quickSortRange(d, low, high, lt) ==
    QuickLoop([d |-> d, stack |-> <<(<<low, high>>)>>], 0,
              IF high >= low THEN 2 * (high - low + 1) + 1 ELSE 1, lt).d

quickSort(d, n, lt) == quickSortRange(d, 0, n - 1, lt)

\* ---------------------------------------------------------------- merge sort

RECURSIVE MergeLoop(_, _, _, _, _, _, _)
\* The three loops of merge write data[k] for k = left..right, one k per
\* iteration: while both halves have elements the smaller head (the left one on
\* a tie), then what is left of the left half, then what is left of the right
\* half.  The state is [d, i, j].
MergeLoop(u, lo, hi, temp, mid, right, lt) ==
    IF hi <= lo THEN u
    ELSE IF hi = lo + 1
         THEN IF u.i <= mid /\ u.j <= right
              THEN IF Less(lt, Get(temp, u.i), Get(temp, u.j))
                   THEN [d |-> Set(u.d, lo, Get(temp, u.i)), i |-> u.i + 1, j |-> u.j]
                   ELSE IF Less(lt, Get(temp, u.j), Get(temp, u.i))
                        THEN [d |-> Set(u.d, lo, Get(temp, u.j)), i |-> u.i, j |-> u.j + 1]
                        ELSE [d |-> Set(u.d, lo, Get(temp, u.i)), i |-> u.i + 1, j |-> u.j]
              ELSE IF u.i <= mid
                   THEN [d |-> Set(u.d, lo, Get(temp, u.i)), i |-> u.i + 1, j |-> u.j]
                   ELSE [d |-> Set(u.d, lo, Get(temp, u.j)), i |-> u.i, j |-> u.j + 1]
    ELSE LET first == MergeLoop(u, lo, Mid(lo, hi), temp, mid, right, lt)
         IN  IF Evaluated(first)
             THEN MergeLoop(first, Mid(lo, hi), hi, temp, mid, right, lt)
             ELSE first

\* merge copies data[left..right] to temp and reads only that part of temp, so
\* temp is the buffer as it was on entry.
merge(d, left, mid, right, lt) ==
    MergeLoop([d |-> d, i |-> left, j |-> mid + 1], left, right + 1, d, mid, right, lt).d

RECURSIVE mergeSortRange(_, _, _, _)
mergeSortRange(d, left, right, lt) ==
    IF left < right
    THEN LET mid == left + ((right - left) \div 2)
             d1  == mergeSortRange(d, left, mid, lt)
             d2  == mergeSortRange(d1, mid + 1, right, lt)
         IN  IF Evaluated(d1) /\ Evaluated(d2) THEN merge(d2, left, mid, right, lt)
             ELSE d
    ELSE d

mergeSort(d, n, lt) == IF n <= 1 THEN d ELSE mergeSortRange(d, 0, n - 1, lt)

\* ----------------------------------------------------------------- introsort

RECURSIVE heapify(_, _, _, _, _)
heapify(d, base, size, root, lt) ==
    LET left  == 2 * (root - base) + 1 + base
        right == 2 * (root - base) + 2 + base
        l1 == IF left < base + size /\ Less(lt, Get(d, root), Get(d, left))
              THEN left ELSE root
        largest == IF right < base + size /\ Less(lt, Get(d, l1), Get(d, right))
                   THEN right ELSE l1
    IN  IF largest # root
        THEN heapify(Swap(d, root, largest), base, size, largest, lt)
        ELSE d

RECURSIVE BuildHeapLoop(_, _, _, _, _, _)
\* for i := size/2 - 1; i >= 0; i-- { heapify(low, size, low+i) }; iteration c
\* has i = size/2 - 1 - c
BuildHeapLoop(d, lo, hi, low, size, lt) ==
    IF hi <= lo THEN d
    ELSE IF hi = lo + 1
         THEN heapify(d, low, size, low + ((size \div 2) - 1 - lo), lt)
    ELSE LET first == BuildHeapLoop(d, lo, Mid(lo, hi), low, size, lt)
         IN  IF Evaluated(first) THEN BuildHeapLoop(first, Mid(lo, hi), hi, low, size, lt)
             ELSE first

RECURSIVE ExtractLoop(_, _, _, _, _, _)
\* for i := size - 1; i > 0; i-- { swap(data[low], data[low+i]);
\* heapify(low, i, low) }; iteration c has i = size - 1 - c
ExtractLoop(d, lo, hi, low, size, lt) ==
    IF hi <= lo THEN d
    ELSE IF hi = lo + 1
         THEN heapify(Swap(d, low, low + (size - 1 - lo)), low, size - 1 - lo, low, lt)
    ELSE LET first == ExtractLoop(d, lo, Mid(lo, hi), low, size, lt)
         IN  IF Evaluated(first) THEN ExtractLoop(first, Mid(lo, hi), hi, low, size, lt)
             ELSE first

heapSortRange(d, low, high, lt) ==
    LET size == high - low + 1
        heap == BuildHeapLoop(d, 0, size \div 2, low, size, lt)
    IN  IF Evaluated(heap) THEN ExtractLoop(heap, 0, size - 1, low, size, lt) ELSE d

\* One call of introsortRange(low, high, depth) and the branch it took; pi is
\* the pivot index when the branch is "partition", and 0 otherwise.
IntroCall(did, low, high, depth, pi) ==
    [did |-> did, low |-> low, high |-> high, depth |-> depth, pi |-> pi]

RECURSIVE introsortRangeDeep(_, _, _, _, _)
\* introsortRange without the case depth == 0: it partitions at any depth.
introsortRangeDeep(u, low, high, depth, lt) ==
    LET size == high - low + 1
    IN  IF size <= IntroInsertionMax
        THEN [d     |-> insertionSortRange(u.d, low, high, lt),
              calls |-> Append(u.calls, IntroCall("insertionSortRange", low, high, depth, 0))]
        ELSE LET p  == partition(u.d, low, high, lt)
                 u1 == introsortRangeDeep(
                           [d     |-> p.d,
                            calls |-> Append(u.calls,
                                             IntroCall("partition", low, high, depth, p.pi))],
                           low, p.pi - 1, depth - 1, lt)
             IN  IF Evaluated(u1) THEN introsortRangeDeep(u1, p.pi + 1, high, depth - 1, lt)
                 ELSE u

RECURSIVE introsortRange(_, _, _, _, _)
\* On [d, calls]: the buffer, and the calls of introsortRange made so far, in
\* the order they are entered.
introsortRange(u, low, high, depth, lt) ==
    LET size == high - low + 1
    IN  IF size <= IntroInsertionMax
        THEN [d     |-> insertionSortRange(u.d, low, high, lt),
              calls |-> Append(u.calls, IntroCall("insertionSortRange", low, high, depth, 0))]
        ELSE IF depth = 0
        THEN [d     |-> heapSortRange(u.d, low, high, lt),
              calls |-> Append(u.calls, IntroCall("heapSortRange", low, high, depth, 0))]
        ELSE LET p  == partition(u.d, low, high, lt)
                 u1 == introsortRange(
                           [d     |-> p.d,
                            calls |-> Append(u.calls,
                                             IntroCall("partition", low, high, depth, p.pi))],
                           low, p.pi - 1, depth - 1, lt)
             IN  IF Evaluated(u1) THEN introsortRange(u1, p.pi + 1, high, depth - 1, lt)
                 ELSE u

RECURSIVE FloorLog2(_)
\* int(math.Log2(float64(n))) for n >= 1
FloorLog2(n) == IF n <= 1 THEN 0 ELSE 1 + FloorLog2(n \div 2)

\* maxDepth := int(math.Log2(float64(pq.size))) * 2; introsortRange(0, size-1, maxDepth)
introsortRun(d, n, lt) ==
    introsortRange([d |-> d, calls |-> << >>], 0, n - 1, FloorLog2(n) * 2, lt)

introsort(d, n, lt) == introsortRun(d, n, lt).d

\* ------------------------------------------------------------------- timsort

RECURSIVE ReverseLoop(_, _, _, _, _)
\* for start < end { swap(data[start], data[end]); start++; end-- }; iteration
\* c swaps data[start + c] and data[end - c]
ReverseLoop(d, lo, hi, start, end) ==
    IF hi <= lo THEN d
    ELSE IF hi = lo + 1 THEN Swap(d, start + lo, end - lo)
    ELSE LET first == ReverseLoop(d, lo, Mid(lo, hi), start, end)
         IN  IF Evaluated(first) THEN ReverseLoop(first, Mid(lo, hi), hi, start, end)
             ELSE first

reverse(d, start, end) ==
    IF start < end THEN ReverseLoop(d, 0, (end - start + 1) \div 2, start, end) ELSE d

RECURSIVE AscendingLoop(_, _, _, _, _, _)
\* for i < size-1 && less(data[i], data[i+1]) { i++ } on [i]
AscendingLoop(u, lo, hi, d, n, lt) ==
    IF hi <= lo THEN u
    ELSE IF hi = lo + 1
         THEN IF u.i < n - 1 /\ Less(lt, Get(d, u.i), Get(d, u.i + 1))
              THEN [i |-> u.i + 1]
              ELSE u
    ELSE LET first == AscendingLoop(u, lo, Mid(lo, hi), d, n, lt)
         IN  IF Evaluated(first) THEN AscendingLoop(first, Mid(lo, hi), hi, d, n, lt)
             ELSE first

RECURSIVE DescendingLoop(_, _, _, _, _, _)
\* for i < size-1 && (less(data[i+1], data[i]) || neither is less) { i++ }
DescendingLoop(u, lo, hi, d, n, lt) ==
    IF hi <= lo THEN u
    ELSE IF hi = lo + 1
         THEN IF /\ u.i < n - 1
                 /\ \/ Less(lt, Get(d, u.i + 1), Get(d, u.i))
                    \/ /\ ~Less(lt, Get(d, u.i), Get(d, u.i + 1))
                       /\ ~Less(lt, Get(d, u.i + 1), Get(d, u.i))
              THEN [i |-> u.i + 1]
              ELSE u
    ELSE LET first == DescendingLoop(u, lo, Mid(lo, hi), d, n, lt)
         IN  IF Evaluated(first) THEN DescendingLoop(first, Mid(lo, hi), hi, d, n, lt)
             ELSE first

\* One iteration of for i < pq.size-1 { ... }: the run that starts at u.i.
FindRun(u, n, lt) ==
    IF Less(lt, Get(u.d, u.i), Get(u.d, u.i + 1))
    THEN LET e == AscendingLoop([i |-> u.i], 0, n - u.i, u.d, n, lt).i
         IN  [d |-> u.d, runs |-> Append(u.runs, e + 1), i |-> e + 1]
    ELSE LET e == DescendingLoop([i |-> u.i], 0, n - u.i, u.d, n, lt).i
         IN  [d |-> reverse(u.d, u.i, e), runs |-> Append(u.runs, e + 1), i |-> e + 1]

RECURSIVE FindRunsLoop(_, _, _, _, _)
\* for i < pq.size-1 { find the run at i; i = its end + 1 } on [d, runs, i]
FindRunsLoop(u, lo, hi, n, lt) ==
    IF hi <= lo THEN u
    ELSE IF hi = lo + 1
         THEN IF u.i < n - 1 THEN FindRun(u, n, lt) ELSE u
    ELSE LET first == FindRunsLoop(u, lo, Mid(lo, hi), n, lt)
         IN  IF Evaluated(first) THEN FindRunsLoop(first, Mid(lo, hi), hi, n, lt)
             ELSE first

\* runs is the list of boundaries, as the code's []int (here 1-indexed).
findRuns(d, n, lt) ==
    LET t == FindRunsLoop([d |-> d, runs |-> <<0>>, i |-> 0], 0, n, n, lt)
    IN  IF t.runs[Len(t.runs)] # n
        THEN [d |-> t.d, runs |-> Append(t.runs, n)]
        ELSE [d |-> t.d, runs |-> t.runs]

RECURSIVE MergePassLoop(_, _, _, _, _)
\* for i := 1; i < len(runs)-1; i += 2 { merge(runs[i-1], runs[i]-1,
\* runs[i+1]-1); newRuns = append(newRuns, runs[i+1]) }: iteration c has
\* i = 2c + 1, and runs[i] of the code is runs[i + 1] here
MergePassLoop(u, lo, hi, runs, lt) ==
    IF hi <= lo THEN u
    ELSE IF hi = lo + 1
         THEN LET i == 2 * lo + 1
              IN  [d |-> merge(u.d, runs[i], runs[i + 1] - 1, runs[i + 2] - 1, lt),
                   newRuns |-> Append(u.newRuns, runs[i + 2])]
    ELSE LET first == MergePassLoop(u, lo, Mid(lo, hi), runs, lt)
         IN  IF Evaluated(first) THEN MergePassLoop(first, Mid(lo, hi), hi, runs, lt)
             ELSE first

\* One pass without if len(runs)%2 == 0 { newRuns = append(newRuns, last) }:
\* a last run without a partner is dropped from the list.
MergePassNoCarry(d, runs, lt) ==
    LET t == MergePassLoop([d |-> d, newRuns |-> <<runs[1]>>], 0,
                           (Len(runs) - 1) \div 2, runs, lt)
    IN  [d |-> t.d, runs |-> t.newRuns]

\* One pass of for len(runs) > 2 { ... }; a last run without a partner is kept.
MergePass(d, runs, lt) ==
    LET t == MergePassLoop([d |-> d, newRuns |-> <<runs[1]>>], 0,
                           (Len(runs) - 1) \div 2, runs, lt)
    IN  [d |-> t.d,
         runs |-> IF Len(runs) % 2 = 0 THEN Append(t.newRuns, runs[Len(runs)])
                  ELSE t.newRuns]

RECURSIVE mergeRuns(_, _, _)
mergeRuns(d, runs, lt) ==
    IF Len(runs) > 2
    THEN LET p == MergePass(d, runs, lt)
         IN  mergeRuns(p.d, p.runs, lt)
    ELSE d

timsort(d, n, lt) ==
    IF n <= MinMerge THEN insertionSort(d, n, lt)
    ELSE LET r == findRuns(d, n, lt) IN mergeRuns(r.d, r.runs, lt)

\* ---------------------------------------------------------------- radix sort

\* A sort that touches the buffer returns [d, panic]: panic is TRUE when the
\* Go runtime aborts the call (an index out of range), and d is then the buffer
\* as the aborted call left it.
Done(d) == [d |-> d, panic |-> FALSE]

Panic(d) == [d |-> d, panic |-> TRUE]

RECURSIVE MaxLoop(_, _, _, _)
\* for i := 0; i < size; i++ { if intVal > max { max = intVal } } on [max]
MaxLoop(u, lo, hi, d) ==
    IF hi <= lo THEN u
    ELSE IF hi = lo + 1
         THEN IF Get(d, lo).k > u.max THEN [max |-> Get(d, lo).k] ELSE u
    ELSE LET first == MaxLoop(u, lo, Mid(lo, hi), d)
         IN  IF Evaluated(first) THEN MaxLoop(first, Mid(lo, hi), hi, d) ELSE first

\* if size == 0 { return 0 }; max := 0; the loop, whose body skips every
\* element whose kind is not Int, Int64 or Int32
getMaxInt(d, n, T) ==
    IF n = 0 \/ T \notin MaxIntKinds THEN 0 ELSE MaxLoop([max |-> 0], 0, n, d).max

\* The digit taken without the division by exp: every pass reads the units.
DigitOfUnits(v, exp) == GoMod(v.k, RadixBase)

\* digit := (int(val.Int()) / exp) % 10, with Go's truncating / and %
Digit(v, exp) == GoMod(GoDiv(v.k, exp), RadixBase)

RECURSIVE DigitCountLoop(_, _, _, _, _)
\* for i := 0; i < size; i++ { count[digit]++ }
DigitCountLoop(cnt, lo, hi, d, exp) ==
    IF hi <= lo THEN cnt
    ELSE IF hi = lo + 1 THEN [cnt EXCEPT ![Digit(Get(d, lo), exp)] = @ + 1]
    ELSE LET first == DigitCountLoop(cnt, lo, Mid(lo, hi), d, exp)
         IN  IF Evaluated(first) THEN DigitCountLoop(first, Mid(lo, hi), hi, d, exp)
             ELSE first

RECURSIVE PrefixLoop(_, _, _)
\* for i := 1; i < 10; i++ { count[i] += count[i-1] }
PrefixLoop(cnt, lo, hi) ==
    IF hi <= lo THEN cnt
    ELSE IF hi = lo + 1 THEN [cnt EXCEPT ![lo] = @ + cnt[lo - 1]]
    ELSE LET first == PrefixLoop(cnt, lo, Mid(lo, hi))
         IN  IF Evaluated(first) THEN PrefixLoop(first, Mid(lo, hi), hi) ELSE first

RECURSIVE PlaceLoop(_, _, _, _, _, _)
\* for i := size - 1; i >= 0; i-- { output[count[digit]-1] = data[i];
\* count[digit]-- } on [output, count]; iteration c has i = size - 1 - c
PlaceLoop(u, lo, hi, d, n, exp) ==
    IF hi <= lo THEN u
    ELSE IF hi = lo + 1
         THEN LET v  == Get(d, n - 1 - lo)
                  dg == Digit(v, exp)
              IN  [output |-> Set(u.output, u.count[dg] - 1, v),
                   count  |-> [u.count EXCEPT ![dg] = @ - 1]]
    ELSE LET first == PlaceLoop(u, lo, Mid(lo, hi), d, n, exp)
         IN  IF Evaluated(first) THEN PlaceLoop(first, Mid(lo, hi), hi, d, n, exp)
             ELSE first

countingSortByDigit(d, n, exp) ==
    IF \E i \in 0..(n - 1) : Digit(Get(d, i), exp) < 0
    THEN \* count[digit]++ with a negative digit: index out of range, in the
         \* counting loop, before this pass has written anything
         Panic(d)
    ELSE LET occ   == DigitCountLoop([dg \in 0..(RadixBase - 1) |-> 0], 0, n, d, exp)
             count == PrefixLoop(occ, 1, RadixBase)
             t     == PlaceLoop([output |-> [i \in 1..n |-> Zero], count |-> count],
                                0, n, d, n, exp)
         IN  \* copy(pq.data[:pq.size], output)
             Done(t.output \o SubSeq(d, n + 1, Len(d)))

RECURSIVE RadixPasses(_, _, _, _)
\* for exp := 1; maxVal/exp > 0; exp *= 10
RadixPasses(d, n, maxVal, exp) ==
    IF GoDiv(maxVal, exp) > 0
    THEN LET r == countingSortByDigit(d, n, exp)
         IN  IF r.panic THEN r ELSE RadixPasses(r.d, n, maxVal, exp * RadixBase)
    ELSE Done(d)

\* countingSortByDigit runs only when maxVal > 0, that is for a kind of
\* MaxIntKinds, for which val.Int() returns.
radixSort(d, n, lt, dt, T) ==
    IF dt # "IntegerType" THEN Done(quickSort(d, n, lt))
    ELSE LET maxVal == getMaxInt(d, n, T)
         IN  IF maxVal <= 0 THEN Done(d) ELSE RadixPasses(d, n, maxVal, 1)

\* ------------------------------------------------------------- counting sort

RECURSIVE MinMaxLoop(_, _, _, _)
\* for i := 1; i < size; i++ { if intVal < min { min = intVal };
\* if intVal > max { max = intVal } } on <<min, max>>
MinMaxLoop(u, lo, hi, d) ==
    IF hi <= lo THEN u
    ELSE IF hi = lo + 1
         THEN <<IF Get(d, lo).k < u[1] THEN Get(d, lo).k ELSE u[1],
                IF Get(d, lo).k > u[2] THEN Get(d, lo).k ELSE u[2]>>
    ELSE LET first == MinMaxLoop(u, lo, Mid(lo, hi), d)
         IN  IF Evaluated(first) THEN MinMaxLoop(first, Mid(lo, hi), hi, d) ELSE first

\* <<min, max>>, both starting at data[0]
\* The third component is TRUE when val.Int() panics on data[0].
getMinMaxInt(d, n, T) ==
    IF n = 0 THEN <<0, 0, FALSE>>
    ELSE IF T \notin SignedKinds THEN <<0, 0, TRUE>>
    ELSE LET mm == MinMaxLoop(<<Get(d, 0).k, Get(d, 0).k>>, 1, n, d)
         IN  <<mm[1], mm[2], FALSE>>

RECURSIVE CountLoop(_, _, _, _, _)
\* for i := 0; i < size; i++ { count[intVal-minVal]++ }; count[i] of the code
\* is cnt[i + 1] here
CountLoop(cnt, lo, hi, d, minVal) ==
    IF hi <= lo THEN cnt
    ELSE IF hi = lo + 1 THEN [cnt EXCEPT ![Get(d, lo).k - minVal + 1] = @ + 1]
    ELSE LET first == CountLoop(cnt, lo, Mid(lo, hi), d, minVal)
         IN  IF Evaluated(first) THEN CountLoop(first, Mid(lo, hi), hi, d, minVal)
             ELSE first

\* The filling loop as an if: a value is written once however often it occurs.
FillOnce(d, lo, hi, pos, value) == IF hi <= lo THEN d ELSE Set(d, pos, value)

RECURSIVE FillLoop(_, _, _, _, _)
\* for count[i] > 0 { data[pos] = value; pos++; count[i]-- }; iteration c
\* writes data[pos + c]
FillLoop(d, lo, hi, pos, value) ==
    IF hi <= lo THEN d
    ELSE IF hi = lo + 1 THEN Set(d, pos + lo, value)
    ELSE LET first == FillLoop(d, lo, Mid(lo, hi), pos, value)
         IN  IF Evaluated(first) THEN FillLoop(first, Mid(lo, hi), hi, pos, value)
             ELSE first

RECURSIVE WriteBackLoop(_, _, _, _, _)
\* for i := 0; i < len(count); i++ { the filling loop } on [d, pos]; the value
\* written is reflect.ValueOf(minVal + i), an int
WriteBackLoop(u, lo, hi, count, minVal) ==
    IF hi <= lo THEN u
    ELSE IF hi = lo + 1
         THEN [d   |-> FillLoop(u.d, 0, count[lo + 1], u.pos, El(minVal + lo, 0)),
               pos |-> u.pos + count[lo + 1]]
    ELSE LET first == WriteBackLoop(u, lo, Mid(lo, hi), count, minVal)
         IN  IF Evaluated(first) THEN WriteBackLoop(first, Mid(lo, hi), hi, count, minVal)
             ELSE first

\* The reconstruction asserts reflect.ValueOf(minVal + i).Interface().(T): the
\* value is an int, and the assertion panics at the first write when T is not.
countingSort(d, n, lt, dt, T) ==
    IF dt # "IntegerType" THEN Done(quickSort(d, n, lt))
    ELSE LET mm == getMinMaxInt(d, n, T)
             minVal == mm[1]
             maxVal == mm[2]
         IN  IF mm[3] THEN Panic(d)
             ELSE IF maxVal - minVal > CountingMaxRange THEN Done(quickSort(d, n, lt))
             ELSE IF n > 0 /\ T # "int" THEN Panic(d)
             ELSE LET count == CountLoop([j \in 1..(maxVal - minVal + 1) |-> 0],
                                         0, n, d, minVal)
                      t == WriteBackLoop([d |-> d, pos |-> 0], 0, Len(count),
                                         count, minVal)
                  IN  Done(t.d)

\* ---------------------------------------------------------- strategy selector

RECURSIVE InversionLoop(_, _, _, _, _, _)
\* for i := 0; i < size-1; i++ { if less(data[i+1], data[i]) { inversions++;
\* if inversions > threshold { return false } } } on [inversions, returned]
InversionLoop(u, lo, hi, d, threshold, lt) ==
    IF hi <= lo THEN u
    ELSE IF hi = lo + 1
         THEN IF u.returned \/ ~Less(lt, Get(d, lo + 1), Get(d, lo)) THEN u
              ELSE [inversions |-> u.inversions + 1,
                    returned   |-> u.inversions + 1 > threshold]
    ELSE LET first == InversionLoop(u, lo, Mid(lo, hi), d, threshold, lt)
         IN  IF Evaluated(first)
             THEN InversionLoop(first, Mid(lo, hi), hi, d, threshold, lt)
             ELSE first

\* isNearlySorted with threshold := pq.size / 10 alone, without the floor of 1.
isNearlySortedNoFloor(d, n, lt) ==
    IF n <= 1 THEN TRUE
    ELSE ~InversionLoop([inversions |-> 0, returned |-> FALSE], 0, n - 1,
                        d, n \div NearlySortedDivisor, lt).returned

isNearlySorted(d, n, lt) ==
    IF n <= 1 THEN TRUE
    ELSE LET t == n \div NearlySortedDivisor
             threshold == IF t < 1 THEN 1 ELSE t
         IN  ~InversionLoop([inversions |-> 0, returned |-> FALSE], 0, n - 1,
                            d, threshold, lt).returned

\* [small, panic]: panic is TRUE when getMinMaxInt panics.
hasSmallRange(d, n, dt, T) ==
    IF dt # "IntegerType" \/ n = 0 THEN [small |-> FALSE, panic |-> FALSE]
    ELSE LET mm == getMinMaxInt(d, n, T)
         IN  [small |-> (mm[2] - mm[1]) <= SmallRangeMax, panic |-> mm[3]]

\* What the selector yields when it panics instead of returning a strategy.
RuntimePanic == "panic"

chooseOptimalStrategy(d, n, lt, dt, T) ==
    IF n <= SmallArrayMax THEN "InsertionStrategy"
    ELSE IF isNearlySorted(d, n, lt) THEN "InsertionStrategy"
    ELSE IF dt = "IntegerType" /\ n > IntegerMinN
         THEN LET r == hasSmallRange(d, n, dt, T)
              IN  IF r.panic THEN RuntimePanic
                  ELSE IF r.small THEN "CountingStrategy" ELSE "RadixStrategy"
    ELSE IF dt = "StringType"
         THEN IF n > LargeN THEN "IntrosortStrategy" ELSE "TimsortStrategy"
    ELSE IF dt = "SliceType" \/ dt = "ArrayType" THEN "MergeStrategy"
    ELSE IF dt = "StructType" \/ dt = "InterfaceType"
         THEN IF n > LargeN THEN "IntrosortStrategy" ELSE "TimsortStrategy"
    ELSE IF dt = "PointerType" \/ dt = "MapType" \/ dt = "ChannelType" \/ dt = "FuncType"
         THEN "QuickStrategy"
    ELSE IF n > LargeN THEN "IntrosortStrategy"
    ELSE "TimsortStrategy"

\* The dispatch without the checks of pq.dataType == IntegerType: Radix and
\* Counting read every element as an integer, whatever the tag.
sortBufferUntagged(d, n, lt, dt, strategy, T) ==
    IF n <= 1 THEN Done(d)
    ELSE LET actualStrategy == IF strategy = "AutoStrategy"
                               THEN chooseOptimalStrategy(d, n, lt, dt, T)
                               ELSE strategy
         IN  CASE actualStrategy = RuntimePanic         -> Panic(d)
               [] actualStrategy = "InsertionStrategy" -> Done(insertionSort(d, n, lt))
               [] actualStrategy = "TimsortStrategy"   -> Done(timsort(d, n, lt))
               [] actualStrategy = "IntrosortStrategy" -> Done(introsort(d, n, lt))
               [] actualStrategy = "MergeStrategy"     -> Done(mergeSort(d, n, lt))
               [] actualStrategy = "QuickStrategy"     -> Done(quickSort(d, n, lt))
               [] actualStrategy = "RadixStrategy"     -> radixSort(d, n, lt, "IntegerType", T)
               [] actualStrategy = "CountingStrategy"  -> countingSort(d, n, lt, "IntegerType", T)
               [] OTHER -> Done(quickSort(d, n, lt))

\* SortWithStrategy on the buffer d with n live elements: [d, panic].
sortBuffer(d, n, lt, dt, strategy, T) ==
    IF n <= 1 THEN Done(d)
    ELSE LET actualStrategy == IF strategy = "AutoStrategy"
                               THEN chooseOptimalStrategy(d, n, lt, dt, T)
                               ELSE strategy
         IN  CASE actualStrategy = RuntimePanic         -> Panic(d)
               [] actualStrategy = "InsertionStrategy" -> Done(insertionSort(d, n, lt))
               [] actualStrategy = "TimsortStrategy"   -> Done(timsort(d, n, lt))
               [] actualStrategy = "IntrosortStrategy" -> Done(introsort(d, n, lt))
               [] actualStrategy = "MergeStrategy"     -> Done(mergeSort(d, n, lt))
               [] actualStrategy = "QuickStrategy"     -> Done(quickSort(d, n, lt))
               [] actualStrategy = "RadixStrategy"     ->
                      IF dt = "IntegerType" THEN radixSort(d, n, lt, dt, T)
                      ELSE Done(quickSort(d, n, lt))
               [] actualStrategy = "CountingStrategy"  ->
                      IF dt = "IntegerType" THEN countingSort(d, n, lt, dt, T)
                      ELSE Done(quickSort(d, n, lt))
               [] OTHER -> Done(quickSort(d, n, lt))

\* ---------------------------------------------------------------- container

\* Go slices share buffers: a slice is a reference to a buffer of the heap and
\* a length; the heap maps each allocated reference to the buffer's contents.
\* The goroutines that read the queue concurrently.
MaxReaders == 2

\* A sequential caller has at most four buffers in use (its own slice, the
\* container's, a grown one, a ToSlice result); each reader has one result.
BufIds == 1..(4 + MaxReaders)

Slice(r, n) == [ref |-> r, len |-> n]

NoSlice == Slice(0, 0)

\* make([]T, n): a fresh buffer, at a reference not in use
Alloc(h) == CHOOSE r \in BufIds \ DOMAIN h : \A q \in BufIds \ DOMAIN h : r <= q

\* What the caller reads through a slice.
View(h, s) == IF s.ref = 0 THEN << >> ELSE SubSeq(h[s.ref], 1, s.len)

\* The tag read off the kind of T alone, without the test of len(data) == 0.
inferByKind(T, data) ==
    CASE T = "ptr"           -> "PointerType"
      [] T \in IntegerKinds  -> "IntegerType"
      [] T = "float64"       -> "FloatType"
      [] T = "string"        -> "StringType"
      [] T = "slice"         -> "SliceType"
      [] T = "array"         -> "ArrayType"
      [] T = "struct"        -> "StructType"
      [] T = "map"           -> "MapType"
      [] T = "chan"          -> "ChannelType"
      [] T = "func"          -> "FuncType"
      [] OTHER               -> "GenericType"

inferDataType(T, data) ==
    IF Len(data) = 0 THEN "GenericType"
    ELSE CASE T = "ptr"     -> "PointerType"
           [] T \in IntegerKinds -> "IntegerType"
           [] T = "float64" -> "FloatType"
           [] T = "string"  -> "StringType"
           [] T = "slice"   -> "SliceType"
           [] T = "array"   -> "ArrayType"
           [] T = "struct"  -> "StructType"
           [] T = "map"     -> "MapType"
           [] T = "chan"    -> "ChannelType"
           [] T = "func"    -> "FuncType"
           [] OTHER         -> "GenericType"

\* New(data, less) for a caller's slice src of elements of type T:
\* the container and the heap after the call.
New(h, src, lt, T) ==
    LET r == Alloc(h)
        data == View(h, src)
    IN  [heap |-> h @@ (r :> data),
         pq   |-> [data |-> Slice(r, Len(data)), less |-> lt, size |-> Len(data),
                   dataType |-> inferDataType(T, data)]]

Size(pq) == pq.size

IsEmpty(pq) == pq.size = 0

\* Push without copy(newData, pq.data[:pq.size]): a grown buffer starts empty.
PushWithoutCopy(h, pq, item) ==
    LET grow    == pq.size >= pq.data.len
        newSize == IF pq.data.len * 2 = 0 THEN 1 ELSE pq.data.len * 2
        r       == Alloc(h)
        h1      == IF grow THEN h @@ (r :> [i \in 1..newSize |-> Zero]) ELSE h
        data1   == IF grow THEN Slice(r, newSize) ELSE pq.data
    IN  [heap |-> [h1 EXCEPT ![data1.ref] = Set(@, pq.size, item)],
         pq   |-> [pq EXCEPT !.data = data1, !.size = pq.size + 1]]

\* Push that grows a full buffer by one slot instead of doubling it.
PushGrowByOne(h, pq, item) ==
    LET grow    == pq.size >= pq.data.len
        newSize == pq.data.len + 1
        r       == Alloc(h)
        newData == [i \in 1..newSize |-> IF i <= pq.size THEN h[pq.data.ref][i] ELSE Zero]
        h1      == IF grow THEN h @@ (r :> newData) ELSE h
        data1   == IF grow THEN Slice(r, newSize) ELSE pq.data
    IN  [heap |-> [h1 EXCEPT ![data1.ref] = Set(@, pq.size, item)],
         pq   |-> [pq EXCEPT !.data = data1, !.size = pq.size + 1]]

Push(h, pq, item) ==
    LET grow    == pq.size >= pq.data.len
        newSize == IF pq.data.len * 2 = 0 THEN 1 ELSE pq.data.len * 2
        r       == Alloc(h)
        newData == [i \in 1..newSize |-> IF i <= pq.size THEN h[pq.data.ref][i] ELSE Zero]
        h1      == IF grow THEN h @@ (r :> newData) ELSE h
        data1   == IF grow THEN Slice(r, newSize) ELSE pq.data
    IN  [heap |-> [h1 EXCEPT ![data1.ref] = Set(@, pq.size, item)],
         pq   |-> [pq EXCEPT !.data = data1, !.size = pq.size + 1]]

\* The scan left out: the first element is taken for the minimum.
FirstIdx(d, n, lt) == 0

RECURSIVE MinLoop(_, _, _, _, _)
\* for i := 1; i < size; i++ { if less(data[i], data[minIdx]) { minIdx = i } }
MinLoop(u, lo, hi, d, lt) ==
    IF hi <= lo THEN u
    ELSE IF hi = lo + 1
         THEN IF Less(lt, Get(d, lo), Get(d, u.minIdx)) THEN [minIdx |-> lo] ELSE u
    ELSE LET first == MinLoop(u, lo, Mid(lo, hi), d, lt)
         IN  IF Evaluated(first) THEN MinLoop(first, Mid(lo, hi), hi, d, lt) ELSE first

RECURSIVE MinLoopLast(_, _, _, _, _)
\* The scan with !less(data[minIdx], data[i]) for its test: it also moves on
\* to an equivalent element.
MinLoopLast(u, lo, hi, d, lt) ==
    IF hi <= lo THEN u
    ELSE IF hi = lo + 1
         THEN IF ~Less(lt, Get(d, u.minIdx), Get(d, lo)) THEN [minIdx |-> lo] ELSE u
    ELSE LET first == MinLoopLast(u, lo, Mid(lo, hi), d, lt)
         IN  IF Evaluated(first) THEN MinLoopLast(first, Mid(lo, hi), hi, d, lt) ELSE first

\* The last of the minimal elements.
LastMinIdx(d, n, lt) == MinLoopLast([minIdx |-> 0], 1, n, d, lt).minIdx

\* minIdx := 0; the loop: the first of the minimal elements
MinIdx(d, n, lt) == MinLoop([minIdx |-> 0], 1, n, d, lt).minIdx

\* Pop without pq.data[minIdx] = pq.data[pq.size-1]: the last live element is
\* dropped in place of the one returned.
PopKeepsSlot(h, pq) ==
    IF pq.size = 0 THEN [heap |-> h, pq |-> pq, result |-> Zero, err |-> TRUE]
    ELSE LET d == h[pq.data.ref]
         IN  [heap   |-> h,
              pq     |-> [pq EXCEPT !.size = pq.size - 1],
              result |-> Get(d, MinIdx(d, pq.size, pq.less)),
              err    |-> FALSE]

\* Pop that returns a nil error on an empty queue.
PopErrNil(h, pq) ==
    IF pq.size = 0 THEN [heap |-> h, pq |-> pq, result |-> Zero, err |-> FALSE]
    ELSE LET d      == h[pq.data.ref]
             minIdx == MinIdx(d, pq.size, pq.less)
         IN  [heap   |-> [h EXCEPT ![pq.data.ref] = Set(d, minIdx, Get(d, pq.size - 1))],
              pq     |-> [pq EXCEPT !.size = pq.size - 1],
              result |-> Get(d, minIdx),
              err    |-> FALSE]

Pop(h, pq) ==
    IF pq.size = 0 THEN [heap |-> h, pq |-> pq, result |-> Zero, err |-> TRUE]
    ELSE LET d      == h[pq.data.ref]
             minIdx == MinIdx(d, pq.size, pq.less)
         IN  [heap   |-> [h EXCEPT ![pq.data.ref] = Set(d, minIdx, Get(d, pq.size - 1))],
              pq     |-> [pq EXCEPT !.size = pq.size - 1],
              result |-> Get(d, minIdx),
              err    |-> FALSE]

\* Peek that returns data[0] without the scan.
PeekFirst(h, pq) ==
    IF pq.size = 0 THEN [result |-> Zero, err |-> TRUE]
    ELSE [result |-> Get(h[pq.data.ref], 0), err |-> FALSE]

Peek(h, pq) ==
    IF pq.size = 0 THEN [result |-> Zero, err |-> TRUE]
    ELSE LET d == h[pq.data.ref]
         IN  [result |-> Get(d, MinIdx(d, pq.size, pq.less)), err |-> FALSE]

SortWithStrategy(h, pq, strategy, T) ==
    LET r == sortBuffer(h[pq.data.ref], pq.size, pq.less, pq.dataType, strategy, T)
    IN  [heap |-> [h EXCEPT ![pq.data.ref] = r.d], panic |-> r.panic]

Sort(h, pq, T) == SortWithStrategy(h, pq, "AutoStrategy", T)

\* ToSlice that returns pq.data[:pq.size] itself, without the copy.
ToSliceAlias(h, pq) == [heap |-> h, slice |-> Slice(pq.data.ref, pq.size)]

ToSlice(h, pq) ==
    LET r == Alloc(h)
    IN  [heap  |-> h @@ (r :> SubSeq(h[pq.data.ref], 1, pq.size)),
         slice |-> Slice(r, pq.size)]

GetDataType(pq) == pq.dataType

\* ----------------------------------------------- a sort call, step by step

\* A pending call or loop of a sort: the function, its range, and x, the
\* value of its loop variable, or its depth, root or middle index.
Frame(fn, low, high, x) == [fn |-> fn, low |-> low, high |-> high, x |-> x]

\* No sort call is in progress.
NoCall == [pc |-> "idle", strategy |-> "", stack |-> << >>, runs |-> << >>]

\* SortWithStrategy(strategy) entered on a queue of n elements: nothing to do
\* for n <= 1, and otherwise the call of the strategy's sort is pending.
EnterSort(strategy, n) ==
    [pc       |-> "running",
     strategy |-> strategy,
     stack    |-> IF n <= 1 THEN << >>
                  ELSE CASE strategy = "InsertionStrategy" ->
                                <<Frame("insertionSort", 0, n - 1, 1)>>
                         [] strategy = "QuickStrategy" ->
                                <<Frame("quickSortRange", 0, n - 1, 0)>>
                         [] strategy = "MergeStrategy" ->
                                <<Frame("mergeSortRange", 0, n - 1, 0)>>
                         [] strategy = "IntrosortStrategy" ->
                                <<Frame("introsortRange", 0, n - 1, FloorLog2(n) * 2)>>
                         [] strategy = "TimsortStrategy" ->
                                <<Frame("timsort", 0, n - 1, 0)>>,
     runs     |-> << >>]

\* quickSortRange that calls itself on [low, pi] in place of [low, pi-1].
QuickFrameKeepsPivot(d, f, rest, lt) ==
    IF f.low < f.high
    THEN LET p == partition(d, f.low, f.high, lt)
         IN  [d |-> p.d,
              stack |-> <<Frame("quickSortRange", f.low, p.pi, 0),
                          Frame("quickSortRange", p.pi + 1, f.high, 0)>> \o rest]
    ELSE [d |-> d, stack |-> rest]

\* quickSortRange(low, high): the partition, and its two calls pending
QuickFrame(d, f, rest, lt) ==
    IF f.low < f.high
    THEN LET p == partition(d, f.low, f.high, lt)
         IN  [d |-> p.d,
              stack |-> <<Frame("quickSortRange", f.low, p.pi - 1, 0),
                          Frame("quickSortRange", p.pi + 1, f.high, 0)>> \o rest]
    ELSE [d |-> d, stack |-> rest]

\* mergeSortRange(left, right): its two calls and the merge pending
MergeSortFrame(d, f, rest) ==
    IF f.low < f.high
    THEN LET mid == f.low + ((f.high - f.low) \div 2)
         IN  [d |-> d,
              stack |-> <<Frame("mergeSortRange", f.low, mid, 0),
                          Frame("mergeSortRange", mid + 1, f.high, 0),
                          Frame("merge", f.low, f.high, mid)>> \o rest]
    ELSE [d |-> d, stack |-> rest]

\* introsortRange(low, high, depth)
IntrosortFrame(d, f, rest, lt) ==
    LET size == f.high - f.low + 1
    IN  IF size <= IntroInsertionMax
        THEN [d |-> d,
              stack |-> <<Frame("insertionSortRange", f.low, f.high, f.low + 1)>> \o rest]
        ELSE IF f.x = 0
        THEN [d |-> d,
              stack |-> <<Frame("heapSortRange build", f.low, f.high, (size \div 2) - 1)>>
                            \o rest]
        ELSE LET p == partition(d, f.low, f.high, lt)
             IN  [d |-> p.d,
                  stack |-> <<Frame("introsortRange", f.low, p.pi - 1, f.x - 1),
                              Frame("introsortRange", p.pi + 1, f.high, f.x - 1)>> \o rest]

\* heapSortRange(low, high), first loop: for i := size/2 - 1; i >= 0; i--
HeapBuildFrame(d, f, rest) ==
    LET size == f.high - f.low + 1
    IN  IF f.x >= 0
        THEN [d |-> d,
              stack |-> <<Frame("heapify", f.low, f.low + size - 1, f.low + f.x),
                          Frame("heapSortRange build", f.low, f.high, f.x - 1)>> \o rest]
        ELSE [d |-> d,
              stack |-> <<Frame("heapSortRange extract", f.low, f.high, size - 1)>> \o rest]

\* heapSortRange(low, high), second loop: for i := size - 1; i > 0; i--
HeapExtractFrame(d, f, rest) ==
    IF f.x > 0
    THEN [d |-> Swap(d, f.low, f.low + f.x),
          stack |-> <<Frame("heapify", f.low, f.low + f.x - 1, f.low),
                      Frame("heapSortRange extract", f.low, f.high, f.x - 1)>> \o rest]
    ELSE [d |-> d, stack |-> rest]

\* heapify(base, size, root), with base = f.low, base + size - 1 = f.high and
\* root = f.x: one call, and the call it makes pending
HeapifyFrame(d, f, rest, lt) ==
    LET base  == f.low
        size  == f.high - f.low + 1
        root  == f.x
        left  == 2 * (root - base) + 1 + base
        right == 2 * (root - base) + 2 + base
        l1 == IF left < base + size /\ Less(lt, Get(d, root), Get(d, left))
              THEN left ELSE root
        largest == IF right < base + size /\ Less(lt, Get(d, l1), Get(d, right))
                   THEN right ELSE l1
    IN  IF largest # root
        THEN [d |-> Swap(d, root, largest),
              stack |-> <<Frame("heapify", f.low, f.high, largest)>> \o rest]
        ELSE [d |-> d, stack |-> rest]

\* One step of the call on top of the stack: [d, stack, runs] after it.
StepFrame(d, c, n, lt) ==
    LET f    == Head(c.stack)
        rest == Tail(c.stack)
        Same(r) == [d |-> r.d, stack |-> r.stack, runs |-> c.runs]
    IN  CASE f.fn = "insertionSort" ->
                 \* for i := 1; i < pq.size; i++
                 IF f.x < n
                 THEN [d |-> Insert(d, f.x, 0, lt),
                       stack |-> <<Frame(f.fn, f.low, f.high, f.x + 1)>> \o rest,
                       runs |-> c.runs]
                 ELSE [d |-> d, stack |-> rest, runs |-> c.runs]
          [] f.fn = "insertionSortRange" ->
                 \* for i := low + 1; i <= high; i++
                 IF f.x <= f.high
                 THEN [d |-> Insert(d, f.x, f.low, lt),
                       stack |-> <<Frame(f.fn, f.low, f.high, f.x + 1)>> \o rest,
                       runs |-> c.runs]
                 ELSE [d |-> d, stack |-> rest, runs |-> c.runs]
          [] f.fn = "quickSortRange" -> Same(QuickFrame(d, f, rest, lt))
          [] f.fn = "mergeSortRange" -> Same(MergeSortFrame(d, f, rest))
          [] f.fn = "merge" ->
                 [d |-> merge(d, f.low, f.x, f.high, lt), stack |-> rest, runs |-> c.runs]
          [] f.fn = "introsortRange" -> Same(IntrosortFrame(d, f, rest, lt))
          [] f.fn = "heapSortRange build" -> Same(HeapBuildFrame(d, f, rest))
          [] f.fn = "heapSortRange extract" -> Same(HeapExtractFrame(d, f, rest))
          [] f.fn = "heapify" -> Same(HeapifyFrame(d, f, rest, lt))
          [] f.fn = "timsort" ->
                 \* if pq.size <= minMerge { insertionSort } else { findRuns; mergeRuns }
                 IF n <= MinMerge
                 THEN [d |-> d, stack |-> <<Frame("insertionSort", 0, n - 1, 1)>> \o rest,
                       runs |-> c.runs]
                 ELSE [d |-> d, stack |-> <<Frame("findRuns", 0, n - 1, 0)>> \o rest,
                       runs |-> <<0>>]
          [] f.fn = "findRuns" ->
                 \* for i < pq.size-1 { one run }, then the last boundary
                 IF f.x < n - 1
                 THEN LET t == FindRun([d |-> d, runs |-> c.runs, i |-> f.x], n, lt)
                      IN  [d |-> t.d,
                           stack |-> <<Frame(f.fn, f.low, f.high, t.i)>> \o rest,
                           runs |-> t.runs]
                 ELSE [d |-> d,
                       stack |-> <<Frame("mergeRuns", 0, n - 1, 0)>> \o rest,
                       runs |-> IF c.runs[Len(c.runs)] # n THEN Append(c.runs, n)
                                ELSE c.runs]
          [] f.fn = "mergeRuns" ->
                 \* for len(runs) > 2 { one pass }
                 IF Len(c.runs) > 2
                 THEN LET p == MergePass(d, c.runs, lt)
                      IN  [d |-> p.d, stack |-> c.stack, runs |-> p.runs]
                 ELSE [d |-> d, stack |-> rest, runs |-> c.runs]

\* The caller is not popping the queue empty.
NoDrain == [on |-> FALSE, n |-> 0, live |-> EmptyBag, got |-> << >>, failed |-> FALSE]

\* ------------------------------------------------------------ state machine

VARIABLES
    heap,       \* the buffers in use: reference -> contents
    pq,         \* the PQueue struct: data (a slice), less, dataType, size
    elemType,   \* the Go type T of PQueue[T]
    src,        \* the caller's slice that was passed to New
    out,        \* the slice the latest ToSlice returned (NoSlice before the first)
    last,       \* the latest call: op, strategy, item (pushed or returned), err
    expected,   \* the bag of the initial elements, plus pushed, minus popped
    panicked,   \* a call was aborted by a runtime panic
    budget,     \* calls the caller may still make
    readers,    \* the goroutines that call ToSlice: each one's position and locals
    call,       \* a sort call in progress: its strategy and its pending calls and loops
    drain       \* a caller that pops until the queue is empty: what it got so far

vars == <<heap, pq, elemType, src, out, last, expected, panicked, budget, readers,
          call, drain>>

\* ------------------------------------------------------------------- bounds

MaxLen == 2

MaxOps == 3

MaxCoef == 1

\* ------------------------------------------------------------------- inputs

RECURSIVE SeqsUpTo(_, _)
SeqsUpTo(S, n) ==
    IF n = 0 THEN {<< >>}
    ELSE LET shorter == SeqsUpTo(S, n - 1)
         IN  shorter \cup {Append(q, x) : q \in {t \in shorter : Len(t) = n - 1}, x \in S}

\* The values of type T the caller has: ints of both signs; otherwise two
\* elements that the comparator holds equivalent and id tells apart, and a third.
Elems(T) ==
    IF T = "int" THEN {El(-1, 0), El(0, 0), El(1, 0)}
    ELSE {El(0, 0), El(0, 1), El(1, 0)}

\* The value a caller overwrites a slot of its own slices with: not in Elems.
Marker == El(7, 0)

RECURSIVE BagLoop(_, _, _)
BagLoop(q, lo, hi) ==
    IF hi <= lo THEN EmptyBag
    ELSE IF hi = lo + 1 THEN SetToBag({q[lo]})
    ELSE BagLoop(q, lo, Mid(lo, hi)) (+) BagLoop(q, Mid(lo, hi), hi)

BagOf(q) == BagLoop(q, 1, Len(q) + 1)

Call(op, strategy, item, err) ==
    [op |-> op, strategy |-> strategy, item |-> item, err |-> err]

\* The buffers still referenced by the container or by the caller.
Collect(h, data, s, o) == [r \in DOMAIN h \cap {data.ref, s.ref, o.ref} |-> h[r]]

\* The live prefix data[0..size).
Live == SubSeq(heap[pq.data.ref], 1, pq.size)

Capacity == Len(heap[pq.data.ref])

Start(T, lt, input, calls) ==
    LET s == Slice(1, Len(input))
        c == New(1 :> input, s, lt, T)
    IN  /\ heap = c.heap
        /\ pq = c.pq
        /\ elemType = T
        /\ src = s
        /\ out = NoSlice
        /\ last = Call("New", "", Zero, FALSE)
        /\ expected = BagOf(input)
        /\ panicked = FALSE
        /\ budget = calls
        /\ readers = << >>
        /\ call = NoCall
        /\ drain = NoDrain

Init ==
    \E T \in {"int", "struct"}, lt \in Comparators :
        \E input \in SeqsUpTo(Elems(T), MaxLen) : Start(T, lt, input, MaxOps)

CanCall == ~panicked /\ budget > 0

CallPush(x) ==
    /\ CanCall
    /\ LET r == Push(heap, pq, x)
       IN  /\ heap' = Collect(r.heap, r.pq.data, src, out)
           /\ pq' = r.pq
    /\ last' = Call("Push", "", x, FALSE)
    /\ expected' = expected (+) SetToBag({x})
    /\ budget' = budget - 1
    /\ UNCHANGED <<elemType, src, out, panicked, readers, call, drain>>

CallPop ==
    /\ CanCall
    /\ LET r == Pop(heap, pq)
       IN  /\ heap' = r.heap
           /\ pq' = r.pq
           /\ last' = Call("Pop", "", r.result, r.err)
           /\ expected' = IF r.err THEN expected ELSE expected (-) SetToBag({r.result})
    /\ budget' = budget - 1
    /\ UNCHANGED <<elemType, src, out, panicked, readers, call, drain>>

CallPeek ==
    /\ CanCall
    /\ LET r == Peek(heap, pq)
       IN  last' = Call("Peek", "", r.result, r.err)
    /\ budget' = budget - 1
    /\ UNCHANGED <<heap, pq, elemType, src, out, expected, panicked, readers, call, drain>>

CallSort ==
    /\ CanCall
    /\ LET r == Sort(heap, pq, elemType)
       IN  /\ heap' = r.heap
           /\ panicked' = r.panic
    /\ last' = Call("Sort", "AutoStrategy", Zero, FALSE)
    /\ budget' = budget - 1
    /\ UNCHANGED <<pq, elemType, src, out, expected, readers, call, drain>>

CallSortWithStrategy(strategy) ==
    /\ CanCall
    /\ LET r == SortWithStrategy(heap, pq, strategy, elemType)
       IN  /\ heap' = r.heap
           /\ panicked' = r.panic
    /\ last' = Call("SortWithStrategy", strategy, Zero, FALSE)
    /\ budget' = budget - 1
    /\ UNCHANGED <<pq, elemType, src, out, expected, readers, call, drain>>

CallToSlice ==
    /\ CanCall
    /\ LET r == ToSlice(heap, pq)
       IN  /\ heap' = Collect(r.heap, pq.data, src, r.slice)
           /\ out' = r.slice
    /\ last' = Call("ToSlice", "", Zero, FALSE)
    /\ budget' = budget - 1
    /\ UNCHANGED <<pq, elemType, src, expected, panicked, readers, call, drain>>

\* The caller writes at index i of the slice it passed to New.
WriteSrc(i) ==
    /\ CanCall
    /\ i < src.len
    /\ heap' = [heap EXCEPT ![src.ref] = Set(@, i, Marker)]
    /\ last' = Call("WriteSrc", "", Marker, FALSE)
    /\ budget' = budget - 1
    /\ UNCHANGED <<pq, elemType, src, out, expected, panicked, readers, call, drain>>

\* The caller writes at index i of the slice ToSlice returned.
WriteOut(i) ==
    /\ CanCall
    /\ out # NoSlice
    /\ i < out.len
    /\ heap' = [heap EXCEPT ![out.ref] = Set(@, i, Marker)]
    /\ last' = Call("WriteOut", "", Marker, FALSE)
    /\ budget' = budget - 1
    /\ UNCHANGED <<pq, elemType, src, out, expected, panicked, readers, call, drain>>

Next ==
    \/ \E x \in Elems(elemType) : CallPush(x)
    \/ CallPop
    \/ CallPeek
    \/ CallSort
    \/ \E strategy \in Strategies \ {"AutoStrategy"} : CallSortWithStrategy(strategy)
    \/ CallToSlice
    \/ \E i \in 0..(MaxLen - 1) : WriteSrc(i)
    \/ \E i \in 0..(MaxLen + MaxOps - 1) : WriteOut(i)

Spec == Init /\ [][Next]_vars

\* ------------------------------------------- concurrent readers of a sorted queue

\* A reader goroutine runs result := pq.ToSlice() in steps, one per access to
\* the shared container: make([]T, pq.size) reads pq.size; the slice expression
\* pq.data[:pq.size] reads pq.data and pq.size; copy reads one element of the
\* shared buffer at a time; return hands the result to the goroutine.
Idle == [pc |-> "idle", result |-> NoSlice, from |-> NoSlice, i |-> 0]

\* result := make([]T, pq.size)
MakeResult(h, q) ==
    LET r == Alloc(h)
    IN  [heap |-> h @@ (r :> [i \in 1..q.size |-> Zero]), slice |-> Slice(r, q.size)]

\* copy that moves: it clears the slot it has read.
MoveElement(h, dst, from, i) ==
    [h EXCEPT ![dst.ref] = Set(@, i, Get(h[from.ref], i)),
              ![from.ref] = Set(@, i, Zero)]

\* copy(dst, from), element i
CopyElement(h, dst, from, i) == [h EXCEPT ![dst.ref] = Set(@, i, Get(h[from.ref], i))]

\* copy copies min(len(dst), len(from)) elements
CopyLen(dst, from) == IF dst.len < from.len THEN dst.len ELSE from.len

\* TestConcurrentAccess: pq := New(data, less); pq.Sort(); then the goroutines.
InitReaders ==
    \E T \in {"int", "struct"}, lt \in Comparators :
        \E input \in SeqsUpTo(Elems(T), MaxLen) :
            LET s == Slice(1, Len(input))
                c == New(1 :> input, s, lt, T)
                r == Sort(c.heap, c.pq, T)
            IN  /\ heap = r.heap
                /\ pq = c.pq
                /\ elemType = T
                /\ src = s
                /\ out = NoSlice
                /\ last = Call("Sort", "AutoStrategy", Zero, FALSE)
                /\ expected = BagOf(input)
                /\ panicked = r.panic
                /\ budget = 0
                /\ readers = [g \in 1..MaxReaders |-> Idle]
                /\ call = NoCall
                /\ drain = NoDrain

ReaderMake(g) ==
    /\ ~panicked
    /\ readers[g].pc = "idle"
    /\ LET r == MakeResult(heap, pq)
       IN  /\ heap' = r.heap
           /\ readers' = [readers EXCEPT ![g].pc = "made", ![g].result = r.slice]
    /\ UNCHANGED <<pq, elemType, src, out, last, expected, panicked, budget, call, drain>>

ReaderSlice(g) ==
    /\ readers[g].pc = "made"
    /\ readers' = [readers EXCEPT ![g].pc = "copying",
                                  ![g].from = Slice(pq.data.ref, pq.size)]
    /\ UNCHANGED <<heap, pq, elemType, src, out, last, expected, panicked, budget, call, drain>>

ReaderCopy(g) ==
    /\ readers[g].pc = "copying"
    /\ readers[g].i < CopyLen(readers[g].result, readers[g].from)
    /\ heap' = CopyElement(heap, readers[g].result, readers[g].from, readers[g].i)
    /\ readers' = [readers EXCEPT ![g].i = @ + 1]
    /\ UNCHANGED <<pq, elemType, src, out, last, expected, panicked, budget, call, drain>>

ReaderReturn(g) ==
    /\ readers[g].pc = "copying"
    /\ readers[g].i >= CopyLen(readers[g].result, readers[g].from)
    /\ readers' = [readers EXCEPT ![g].pc = "done"]
    /\ UNCHANGED <<heap, pq, elemType, src, out, last, expected, panicked, budget, call, drain>>

NextReaders ==
    \E g \in 1..MaxReaders :
        ReaderMake(g) \/ ReaderSlice(g) \/ ReaderCopy(g) \/ ReaderReturn(g)

SpecReaders == InitReaders /\ [][NextReaders]_vars

\* ------------------------------------------- one sort call on a larger input

\* Sizes on each side of the thresholds of the code: 16 (the selector's and
\* introsort's insertion-sort cases), 32 (timsort's), 100 (the integer paths).
SortSizes == {2, 17, 33, 101}

\* 3 gives many duplicates; 997 keeps the range of the keys within 1000, 2003
\* does not.
Moduli == {3, 997, 2003}

Multipliers == {1, 7919}

\* The key at position i: a multiple of i, scrambled by mul, reduced mod m and
\* shifted down by c.  a = 0 is a constant sequence; with mul = 1 and m > n,
\* a = 1 is an ascending and a = -1 a descending one; a large mul gives many
\* inversions, c > 0 negative keys.
GenKey(i, a, mul, m, c) == ((a * i * mul) % m) - c

\* Elements of a type other than int carry their position as id, so that
\* elements with equal keys can be told apart.
Input(T, n, a, mul, m, c) ==
    [i \in 1..n |-> El(GenKey(i, a, mul, m, c), IF T \in IntegerKinds THEN 0 ELSE i)]

InitSort ==
    \E T \in {"int", "struct"}, lt \in Comparators :
        \E n \in SortSizes, a \in (-MaxCoef)..MaxCoef, mul \in Multipliers,
           m \in Moduli, neg \in BOOLEAN :
            Start(T, lt, Input(T, n, a, mul, m, IF neg THEN m \div 2 ELSE 0), 1)

NextSort ==
    \/ CallSort
    \/ \E strategy \in Strategies \ {"AutoStrategy"} : CallSortWithStrategy(strategy)

SpecSort == InitSort /\ [][NextSort]_vars

\* ------------------------------------- one comparison sort, one step at a time

\* The strategies that sort by comparison.
ComparisonStrategies ==
    {"InsertionStrategy", "QuickStrategy", "MergeStrategy", "IntrosortStrategy",
     "TimsortStrategy"}

\* Sizes on each side of introsort's 16 and timsort's 32; 33 elements in order
\* or reversed exhaust introsort's depth budget.
StepSizes == {2, 17, 33}

InitSteps ==
    \E lt \in Comparators :
        \E n \in StepSizes, a \in (-MaxCoef)..MaxCoef, mul \in Multipliers,
           m \in Moduli, neg \in BOOLEAN :
            Start("struct", lt, Input("struct", n, a, mul, m, IF neg THEN m \div 2 ELSE 0), 1)

\* The caller calls SortWithStrategy(strategy).
EnterSortWithStrategy(strategy) ==
    /\ CanCall
    /\ call.pc = "idle"
    /\ call' = EnterSort(strategy, pq.size)
    /\ budget' = budget - 1
    /\ UNCHANGED <<heap, pq, elemType, src, out, last, expected, panicked, readers, drain>>

\* StepSort can happen: every pending call or loop has a step, and the step
\* changes the stack or the run boundaries.
StepEnabled == call.pc = "running" /\ call.stack # << >>

ReturnEnabled == call.pc = "running" /\ call.stack = << >>

\* The sort makes the call, or the loop iteration, on top of its stack.
StepSort ==
    /\ StepEnabled
    /\ LET t == StepFrame(heap[pq.data.ref], call, pq.size, pq.less)
       IN  /\ heap' = [heap EXCEPT ![pq.data.ref] = t.d]
           /\ call' = [call EXCEPT !.stack = t.stack, !.runs = t.runs]
    /\ UNCHANGED <<pq, elemType, src, out, last, expected, panicked, budget, readers, drain>>

\* Nothing is pending: SortWithStrategy returns.
ReturnSort ==
    /\ ReturnEnabled
    /\ call' = [call EXCEPT !.pc = "returned"]
    /\ last' = Call("SortWithStrategy", call.strategy, Zero, FALSE)
    /\ UNCHANGED <<heap, pq, elemType, src, out, expected, panicked, budget, readers, drain>>

NextSteps ==
    \/ \E strategy \in ComparisonStrategies : EnterSortWithStrategy(strategy)
    \/ StepSort
    \/ ReturnSort

SpecSteps == InitSteps /\ [][NextSteps]_vars

\* A call that can take a step takes it: the sort runs on the caller's thread
\* of control and nothing else is scheduled. This is WF_vars(StepSort) /\
\* WF_vars(ReturnSort) with ENABLED <<StepSort>>_vars and ENABLED
\* <<ReturnSort>>_vars written out as the guards of the two actions.
SpecStepsFair ==
    /\ SpecSteps
    /\ ([]<>(~StepEnabled) \/ []<><<StepSort>>_vars)
    /\ ([]<>(~ReturnEnabled) \/ []<><<ReturnSort>>_vars)

\* ------------------------------------------------- Sort, then Pop, then ToSlice

\* One element, three, and sizes past the selector's 16 and 100.
SortPopSizes == {1, 3, 17, 101}

InitSortPop ==
    \E T \in {"int", "struct"}, lt \in Comparators :
        \E n \in SortPopSizes, a \in (-MaxCoef)..MaxCoef, mul \in Multipliers,
           m \in Moduli, neg \in BOOLEAN :
            Start(T, lt, Input(T, n, a, mul, m, IF neg THEN m \div 2 ELSE 0), 3)

\* pq.Sort(); item, err := pq.Pop(); data := pq.ToSlice()
NextSortPop ==
    \/ last.op = "New" /\ CallSort
    \/ last.op = "Sort" /\ CallPop
    \/ last.op = "Pop" /\ CallToSlice

SpecSortPop == InitSortPop /\ [][NextSortPop]_vars

\* --------------------------------------------- popping a queue until it is empty

\* The caller starts to pop: n and live are the size and the live elements now.
BeginDrain ==
    /\ ~drain.on
    /\ ~panicked
    /\ drain' = [on |-> TRUE, n |-> pq.size, live |-> BagOf(Live), got |-> << >>,
                 failed |-> FALSE]
    /\ UNCHANGED <<heap, pq, elemType, src, out, last, expected, panicked, budget,
                   readers, call>>

\* The caller has not seen an error yet.
DrainEnabled == drain.on /\ ~drain.failed

\* The next Pop() of the caller, who stops at the first error.
DrainPop ==
    /\ DrainEnabled
    /\ LET r == Pop(heap, pq)
       IN  /\ heap' = r.heap
           /\ pq' = r.pq
           /\ last' = Call("Pop", "", r.result, r.err)
           /\ expected' = IF r.err THEN expected ELSE expected (-) SetToBag({r.result})
           /\ drain' = IF r.err THEN [drain EXCEPT !.failed = TRUE]
                       ELSE [drain EXCEPT !.got = Append(@, r.result)]
    /\ UNCHANGED <<elemType, src, out, panicked, budget, readers, call>>

\* Any calls of Push, Pop and Sort first, then the Pops.
NextDrain ==
    \/ ~drain.on /\ \E x \in Elems(elemType) : CallPush(x)
    \/ ~drain.on /\ CallPop
    \/ ~drain.on /\ CallSort
    \/ BeginDrain
    \/ DrainPop

SpecDrain == Init /\ [][NextDrain]_vars

\* The caller makes its next Pop() call. This is WF_vars(DrainPop) with
\* ENABLED <<DrainPop>>_vars written out as the guard of the action: every
\* DrainPop step changes drain.
SpecDrainFair == SpecDrain /\ ([]<>(~DrainEnabled) \/ []<><<DrainPop>>_vars)

\* ------------------------------------------------- the strategy selector alone

\* Sizes on each side of the selector's thresholds 16, 100 and 1000.
ChooseSizes == {16, 17, 100, 101, 1000, 1001}

\* The README's large dataset: make([]int, 10000).
LargeDataset == 10000

\* The kinds of T that inferDataType tells apart, and one that it does not.
ChooseTypes == ElemTypes \cup {"bool"}

\* Queues of every kind of element at the selector's sizes, in order and not,
\* and the README's large dataset of ints that are not in order.
InitChoose ==
    \/ \E T \in ChooseTypes, lt \in Comparators :
           \E n \in ChooseSizes, a \in 1..MaxCoef, mul \in Multipliers,
              m \in Moduli, neg \in (IF T = "uint" THEN {FALSE} ELSE BOOLEAN) :
               Start(T, lt, Input(T, n, a, mul, m, IF neg THEN m \div 2 ELSE 0), 1)
    \/ \E m \in Moduli, neg \in BOOLEAN :
           Start("int", "asc",
                 Input("int", LargeDataset, 1, 7919, m, IF neg THEN m \div 2 ELSE 0), 1)

\* pq.chooseOptimalStrategy(), as SortWithStrategy(AutoStrategy) calls it.
CallChoose ==
    /\ CanCall
    /\ LET chosen == chooseOptimalStrategy(heap[pq.data.ref], pq.size, pq.less,
                                            pq.dataType, elemType)
       IN  /\ last' = Call("chooseOptimalStrategy", chosen, Zero, FALSE)
           /\ panicked' = (chosen = RuntimePanic)
    /\ budget' = budget - 1
    /\ UNCHANGED <<heap, pq, elemType, src, out, expected, readers, call, drain>>

NextChoose == CallChoose

SpecChoose == InitChoose /\ [][NextChoose]_vars

\* ------------------------------------ the integer paths on every integer kind

\* Values around the limit of the counting path, of one and of several decimal
\* digits, and, for the signed kinds, a negative one.
IntKeys(T) ==
    {0, 1, 12, CountingMaxRange, CountingMaxRange + 1} \cup (IF T = "uint" THEN {} ELSE {0 - 1})

InitInts ==
    \E T \in IntegerKinds, lt \in Comparators :
        \E input \in SeqsUpTo({El(k, 0) : k \in IntKeys(T)}, MaxLen) :
            Start(T, lt, input, 1)

NextInts ==
    \E strategy \in {"CountingStrategy", "RadixStrategy"} : CallSortWithStrategy(strategy)

SpecInts == InitInts /\ [][NextInts]_vars

\* ------------------------------------------------- the nearly-sorted test alone

\* The most descents planted in an ascending input.
MaxDrops == 4

\* Sizes whose tenth is 0, 1, 2 and 3, on each side of a multiple of ten.
NearlySizes == {1, 2, 9, 10, 11, 19, 20, 21, 30}

\* 1, 2, ..., n with each of the first j even positions lowered below its
\* predecessor: j adjacent descents, n - 1 - j adjacent ascents.
Planted(T, n, j) ==
    [i \in 1..n |-> El(IF i % 2 = 0 /\ i <= 2 * j THEN i - 3 ELSE i,
                       IF T \in IntegerKinds THEN 0 ELSE i)]

InitNearly ==
    \E T \in {"int", "struct"}, lt \in Comparators :
        \/ \E input \in SeqsUpTo(Elems(T), MaxLen) : Start(T, lt, input, 1)
        \/ \E n \in NearlySizes, j \in 0..MaxDrops :
               2 * j <= n /\ Start(T, lt, Planted(T, n, j), 1)

\* pq.isNearlySorted(), its result recorded with the call.
CallIsNearlySorted ==
    /\ CanCall
    /\ last' = [result |-> isNearlySorted(heap[pq.data.ref], pq.size, pq.less)]
                   @@ Call("isNearlySorted", "", Zero, FALSE)
    /\ budget' = budget - 1
    /\ UNCHANGED <<heap, pq, elemType, src, out, expected, panicked, readers, call, drain>>

NextNearly == CallIsNearlySorted

SpecNearly == InitNearly /\ [][NextNearly]_vars

\* ------------------------------------------------------------------ properties

\* What ToSlice() returns when called in the current state.
Snapshot == LET r == ToSlice(heap, pq) IN View(r.heap, r.slice)

\* What the caller reads through the slice it passed to New.
Source == View(heap, src)

\* No adjacent pair is out of order under the comparator.
NonDecreasing(q, lt) == \A i \in 1..(Len(q) - 1) : ~Less(lt, q[i + 1], q[i])

\* Ascending numeric order.
Ascending(q) == \A i \in 1..(Len(q) - 1) : q[i].k <= q[i + 1].k

\* A queue made by NewInts: ints under the natural order.
IsNewInts == elemType = "int" /\ pq.less = "asc"

\* C1: after a Sort() that returned, no adjacent pair of the live prefix is out
\* of order under the queue's comparator, whatever the comparator and the type
\* tag.
C1_SortOrdersByComparator ==
    (last.op = "Sort" /\ ~panicked) => NonDecreasing(Live, pq.less)

\* C2: in every state the multiset of what ToSlice() returns is the multiset of
\* the initial elements plus the pushed ones minus the ones returned by
\* successful Pops.
C2_MultisetPreserved == BagOf(Snapshot) = expected

\* C2 witness: a counting sort of an integer-tagged queue that holds more
\* elements than it was built with, of different values.
C2_Witness ==
    /\ last.op = "SortWithStrategy" /\ last.strategy = "CountingStrategy"
    /\ pq.dataType = "IntegerType"
    /\ ~panicked
    /\ pq.size > src.len
    /\ Cardinality(DOMAIN expected) >= 2

\* C3: a Pop on a queue of size >= 1 returns no error and an element that was
\* live and that no live element is less than, and the size goes down by one.
C3_PopReturnsMinimal ==
    [][(last'.op = "Pop" /\ pq.size >= 1) =>
           /\ ~last'.err
           /\ \E i \in 1..pq.size : Live[i] = last'.item
           /\ \A i \in 1..pq.size : ~Less(pq.less, Live[i], last'.item)
           /\ Size(pq') = Size(pq) - 1]_vars

\* C3 witness: a Pop has returned an element and left two or more, one of
\* them greater than the one returned.
C3_Witness ==
    /\ last.op = "Pop" /\ ~last.err
    /\ pq.size >= 2
    /\ \E i \in 1..pq.size : Less(pq.less, last.item, Live[i])

\* C4: a Push(x) raises the size by one and ToSlice() after it is ToSlice()
\* before it with x appended.
C4_PushAppends ==
    [][last'.op = "Push" =>
           /\ Size(pq') = Size(pq) + 1
           /\ Live' = Append(Live, last'.item)
           /\ Snapshot' = Append(Snapshot, last'.item)]_vars

\* C4 witness: a Push on a full, non-empty buffer, which it doubled.
C4_Witness ==
    /\ last.op = "Push"
    /\ src.len >= 1
    /\ pq.size = src.len + 1
    /\ Capacity = 2 * src.len

\* C5: on an empty queue Pop and Peek return an error and change neither the
\* container nor any buffer; the Push that follows gives size 1 and a queue
\* that is not empty.
C5_EmptyQueueErrors ==
    [][/\ (pq.size = 0 /\ last'.op \in {"Pop", "Peek"}) =>
              (last'.err /\ pq' = pq /\ heap' = heap)
       /\ (last.err /\ last'.op = "Push") =>
              (Size(pq') = 1 /\ ~IsEmpty(pq'))]_vars

\* C5 witness: a Pop has failed on a queue that was built with elements and
\* emptied by Pops.
C5_Witness ==
    /\ last.op = "Pop" /\ last.err
    /\ pq.size = 0
    /\ src.len >= 1

\* C6: a Peek changes neither the container nor any buffer, and on a non-empty
\* queue it returns no error and the element the Pop that follows returns.
C6_PeekAgreesWithPop ==
    [][last'.op = "Peek" =>
           /\ pq' = pq /\ heap' = heap
           /\ pq.size >= 1 =>
                  /\ ~last'.err
                  /\ last'.item = Pop(heap', pq').result
                  /\ last'.item = Peek(heap', pq').result]_vars

\* C6 witness: a Peek has returned the element the next Pop returns, which is
\* not the first of the buffer.
C6_Witness ==
    /\ last.op = "Peek" /\ ~last.err
    /\ pq.size >= 2
    /\ last.item = Pop(heap, pq).result
    /\ last.item # Live[1]

\* C7: a write to the slice passed to New, or to a slice ToSlice returned,
\* changes neither the container nor its buffer; and no call on the container
\* changes what the caller reads through a slice ToSlice returned.
C7_NoAliasing ==
    [][/\ last'.op \in {"WriteSrc", "WriteOut"} =>
              (pq' = pq /\ Live' = Live /\ Snapshot' = Snapshot
               /\ Peek(heap', pq') = Peek(heap, pq)
               /\ Pop(heap', pq').result = Pop(heap, pq).result)
       /\ (out # NoSlice
           /\ last'.op \in {"Push", "Pop", "Peek", "Sort", "SortWithStrategy"}) =>
              View(heap', out') = View(heap, out)]_vars

\* C7 witness: the caller has overwritten an element of a slice ToSlice
\* returned, and the container does not hold the value written.
C7_Witness ==
    /\ last.op = "WriteOut"
    /\ pq.size >= 1
    /\ out.len = pq.size
    /\ \E i \in 1..out.len : View(heap, out)[i] = Marker
    /\ \A i \in 1..pq.size : Live[i] # Marker

\* C8: on a NewInts queue, SortWithStrategy with Insertion, Quick, Merge,
\* Introsort or Timsort returns and leaves ToSlice() in ascending order with
\* the multiset of the input: the ascending sort of the input.
C8_ComparisonSortsSortInts ==
    (IsNewInts /\ last.op = "SortWithStrategy"
     /\ last.strategy \in ComparisonStrategies) =>
        /\ ~panicked
        /\ Ascending(Snapshot)
        /\ BagOf(Snapshot) = BagOf(Source)

\* C8 witness: Timsort has sorted more than 100 ints, some of them negative,
\* that were not in order.
C8_Witness ==
    /\ IsNewInts
    /\ last.op = "SortWithStrategy" /\ last.strategy = "TimsortStrategy"
    /\ pq.size > IntegerMinN
    /\ \E i \in 1..pq.size : Source[i].k < 0
    /\ ~Ascending(Source)
    /\ Ascending(Snapshot)

\* C9: on a NewInts queue that holds a negative integer, Sort() returns and
\* leaves ToSlice() in ascending order, whatever the size.
C9_SortWithNegatives ==
    (IsNewInts /\ last.op = "Sort" /\ \E i \in 1..src.len : Source[i].k < 0) =>
        (~panicked /\ Ascending(Snapshot))

\* C10: on a NewInts queue of non-negative integers, SortWithStrategy with
\* Radix returns and leaves ToSlice() in ascending order with the multiset of
\* the input.
C10_RadixSortsNonNegative ==
    (IsNewInts /\ last.op = "SortWithStrategy" /\ last.strategy = "RadixStrategy"
     /\ \A i \in 1..src.len : Source[i].k >= 0) =>
        /\ ~panicked
        /\ Ascending(Snapshot)
        /\ BagOf(Snapshot) = BagOf(Source)

\* C10 witness: Radix has sorted more than 100 non-negative ints of one to
\* four digits that were not in order.
C10_Witness ==
    /\ IsNewInts
    /\ last.op = "SortWithStrategy" /\ last.strategy = "RadixStrategy"
    /\ pq.size > IntegerMinN
    /\ \A i \in 1..pq.size : Source[i].k >= 0
    /\ \E i \in 1..pq.size : Source[i].k >= 1000
    /\ \E i \in 1..pq.size : Source[i].k < 10
    /\ ~Ascending(Source)
    /\ Ascending(Snapshot)

\* C11: on a NewInts queue whose values span at most 10000, SortWithStrategy
\* with Counting returns and leaves ToSlice() in ascending order with the
\* multiset of the input, negative values, zeros and duplicates included.
C11_CountingSortsSmallRange ==
    (IsNewInts /\ last.op = "SortWithStrategy" /\ last.strategy = "CountingStrategy"
     /\ \A i, j \in 1..src.len : Source[i].k - Source[j].k <= CountingMaxRange) =>
        /\ ~panicked
        /\ Ascending(Snapshot)
        /\ BagOf(Snapshot) = BagOf(Source)

\* C11 witness: Counting has sorted more than 100 ints, with negative values,
\* zeros and duplicates among them, that were not in order.
C11_Witness ==
    /\ IsNewInts
    /\ last.op = "SortWithStrategy" /\ last.strategy = "CountingStrategy"
    /\ pq.size > IntegerMinN
    /\ \E i, j, z \in 1..pq.size :
           Source[i].k < 0 /\ Source[z].k = 0 /\ i # j /\ Source[i] = Source[j]
    /\ ~Ascending(Source)
    /\ Ascending(Snapshot)
    /\ BagOf(Snapshot) = BagOf(Source)

\* Elements of a type other than int carry their input position as id: a
\* sequence is in stable order when equivalent elements (equal keys) are in
\* the order of their input positions.
Stable(q) ==
    \A i, j \in 1..Len(q) : (i < j /\ q[i].k = q[j].k) => q[i].id < q[j].id

\* C12: SortWithStrategy with Merge or Insertion keeps comparator-equivalent
\* elements in their input order, for every input size.
C12_MergeAndInsertionStable ==
    (elemType # "int" /\ last.op = "SortWithStrategy"
     /\ last.strategy \in {"MergeStrategy", "InsertionStrategy"}) =>
        /\ ~panicked
        /\ Stable(Snapshot)
        /\ NonDecreasing(Snapshot, pq.less)

\* C12 witness: Merge has sorted more than 100 records that were not in order,
\* with equivalent records among them, and kept those in their input order.
C12_Witness ==
    /\ elemType # "int"
    /\ last.op = "SortWithStrategy" /\ last.strategy = "MergeStrategy"
    /\ pq.size > IntegerMinN
    /\ \E i, j \in 1..pq.size : i # j /\ Source[i].k = Source[j].k
    /\ ~NonDecreasing(Source, pq.less)
    /\ Stable(Snapshot)
    /\ NonDecreasing(Snapshot, pq.less)

\* C13: SortWithStrategy with Timsort keeps comparator-equivalent elements in
\* their input order, for every input size, the sizes above 32 included.
C13_TimsortStable ==
    (elemType # "int" /\ last.op = "SortWithStrategy"
     /\ last.strategy = "TimsortStrategy" /\ ~panicked) =>
        Stable(Snapshot)

\* C14: when the live prefix is already non-decreasing under the comparator,
\* a Sort() or a SortWithStrategy, with any strategy, that returns leaves
\* every element at the index it had.
C14_SortedInputUnchanged ==
    (last.op \in {"Sort", "SortWithStrategy"} /\ ~panicked
     /\ NonDecreasing(Source, pq.less)) =>
        Snapshot = Source

\* C15: on a queue whose type tag is not integer, SortWithStrategy with Radix
\* or Counting returns and leaves exactly the buffers that SortWithStrategy
\* with Quick leaves from the same state.
C15_FallbackIsQuick ==
    [][(last'.op = "SortWithStrategy"
        /\ last'.strategy \in {"RadixStrategy", "CountingStrategy"}
        /\ pq.dataType # "IntegerType") =>
           /\ ~panicked'
           /\ pq' = pq
           /\ heap' = SortWithStrategy(heap, pq, "QuickStrategy", elemType).heap]_vars

\* C15 witness: Radix was called on a queue of ints that was built empty and
\* filled by Push, so its tag is unclassified, and it has ordered two
\* different values by the descending comparator.
C15_Witness ==
    /\ last.op = "SortWithStrategy" /\ last.strategy = "RadixStrategy"
    /\ elemType = "int" /\ pq.dataType = "GenericType"
    /\ pq.less = "desc"
    /\ ~panicked
    /\ pq.size >= 2
    /\ Live[1].k > Live[2].k

\* The number of adjacent inversions of q is at most max(1, floor(n / 10)).
NearlySorted(q, lt) ==
    \/ Len(q) <= 1
    \/ LET inversions == Cardinality({i \in 1..(Len(q) - 1) : Less(lt, q[i + 1], q[i])})
           tenth == Len(q) \div 10
       IN  inversions <= IF tenth < 1 THEN 1 ELSE tenth

MinOf(S) == CHOOSE x \in S : \A y \in S : x <= y

\* max - min of the keys of a non-empty q.
KeyRange(q) ==
    LET K == {q[i].k : i \in 1..Len(q)}
    IN  (0 - MinOf({0 - k : k \in K})) - MinOf(K)

\* The selection table, first matching rule first.
Selected(n, nearly, dt, range) ==
    IF n <= 16 THEN "InsertionStrategy"
    ELSE IF nearly THEN "InsertionStrategy"
    ELSE IF dt = "IntegerType" /\ n > 100
         THEN IF range <= 1000 THEN "CountingStrategy" ELSE "RadixStrategy"
    ELSE IF dt = "StringType"
         THEN IF n > 1000 THEN "IntrosortStrategy" ELSE "TimsortStrategy"
    ELSE IF dt \in {"SliceType", "ArrayType"} THEN "MergeStrategy"
    ELSE IF dt \in {"StructType", "InterfaceType"}
         THEN IF n > 1000 THEN "IntrosortStrategy" ELSE "TimsortStrategy"
    ELSE IF dt \in {"PointerType", "MapType", "ChannelType", "FuncType"}
         THEN "QuickStrategy"
    ELSE IF n > 1000 THEN "IntrosortStrategy" ELSE "TimsortStrategy"

\* C16: chooseOptimalStrategy returns, and what it returns is the entry of the
\* selection table for the queue's size, nearly-sortedness, type tag and
\* integer range; it is never AutoStrategy.
C16_SelectorIsTable ==
    last.op = "chooseOptimalStrategy" =>
        /\ ~panicked
        /\ last.strategy = Selected(pq.size, NearlySorted(Snapshot, pq.less),
                                    pq.dataType, KeyRange(Snapshot))
        /\ last.strategy \in Strategies \ {"AutoStrategy"}

\* C17: on a NewInts queue of 10000 integers that are not nearly sorted, the
\* strategy Sort() dispatches to is Introsort.
C17_LargeIntsUseIntrosort ==
    (IsNewInts /\ pq.size = LargeDataset /\ last.op = "chooseOptimalStrategy"
     /\ ~NearlySorted(Snapshot, pq.less)) =>
        last.strategy = "IntrosortStrategy"

\* The category of each kind of element.
Category ==
    [int |-> "IntegerType", int16 |-> "IntegerType", int64 |-> "IntegerType",
     uint |-> "IntegerType", float64 |-> "FloatType", string |-> "StringType",
     slice |-> "SliceType", array |-> "ArrayType", struct |-> "StructType",
     map |-> "MapType", ptr |-> "PointerType", chan |-> "ChannelType",
     func |-> "FuncType"]

\* C18: in every state, after any sequence of Push, Pop, Peek, Sort,
\* SortWithStrategy and ToSlice, the type tag is the one of the sequence passed
\* to New (GenericType when it was empty, otherwise the category of its
\* elements), and the container has no field that holds a strategy.
C18_TagFixedAtNew ==
    /\ pq.dataType = IF src.len = 0 THEN "GenericType" ELSE Category[elemType]
    /\ DOMAIN pq = {"data", "less", "size", "dataType"}

\* A queue of ints built empty, filled by Push and sorted with a strategy of
\* its own, still tagged GenericType.
C18_Witness ==
    /\ elemType = "int" /\ src.len = 0 /\ pq.size >= 2
    /\ last.op = "SortWithStrategy" /\ last.strategy = "CountingStrategy"
    /\ pq.dataType = "GenericType"

\* C19: in every state 0 <= size <= capacity, the capacity being the length of
\* the buffer; a Push changes the capacity only when size = capacity before
\* it, and then to twice the capacity, or to 1 from 0; Pop, Peek, Sort,
\* SortWithStrategy and ToSlice leave the capacity as it is.
C19_CapacityDoubles ==
    /\ [](0 <= pq.size /\ pq.size <= Capacity /\ Capacity = pq.data.len)
    /\ [][/\ last'.op = "Push" =>
                 Capacity' = IF pq.size # Capacity THEN Capacity
                             ELSE IF Capacity = 0 THEN 1 ELSE 2 * Capacity
          /\ last'.op \in {"Pop", "Peek", "Sort", "SortWithStrategy", "ToSlice"} =>
                 Capacity' = Capacity]_vars

\* C19 witness: a Push after a Pop on a queue built full has taken the freed
\* slot: the buffer is full again and is still the one of New.
C19_Witness ==
    /\ last.op = "Push"
    /\ src.len >= 2
    /\ pq.size = src.len
    /\ Capacity = src.len

\* C20: on a queue that was sorted and is not mutated, under every interleaving
\* of the steps of the goroutines that call ToSlice(), each goroutine that has
\* returned holds the complete live prefix, in sorted order, in a buffer of
\* its own, and no step of a reader changes the container or its buffer.
C20_ConcurrentReaders ==
    /\ [](\A g \in DOMAIN readers :
              readers[g].pc = "done" =>
                  /\ View(heap, readers[g].result) = Live
                  /\ NonDecreasing(View(heap, readers[g].result), pq.less)
                  /\ readers[g].result.ref # pq.data.ref
                  /\ \A o \in DOMAIN readers \ {g} :
                         readers[o].result.ref # readers[g].result.ref)
    /\ [][pq' = pq /\ heap'[pq.data.ref] = heap[pq.data.ref]]_vars

\* C20 witness: two goroutines have returned from ToSlice() on a sorted queue of
\* two elements that New received out of order.
C20_Witness ==
    /\ DOMAIN readers # {}
    /\ \A g \in DOMAIN readers : readers[g].pc = "done"
    /\ pq.size >= 2
    /\ ~NonDecreasing(Source, pq.less)
    /\ NonDecreasing(Live, pq.less)

\* The positions of q that hold an element no element of q is less than.
MinimalAt(q, lt) == {i \in 1..Len(q) : \A j \in 1..Len(q) : ~Less(lt, q[j], q[i])}

\* C21: a Pop on a queue of size n >= 1 returns the element at the lowest
\* index k among the minimal ones; after it slot k holds the element that was
\* at index n-1 (slot k is gone when k = n-1) and every other index of
\* [0, n-1) holds the element it held before.
C21_PopMovesLastIntoSlot ==
    [][(last'.op = "Pop" /\ pq.size >= 1) =>
           LET n == pq.size
               k == CHOOSE i \in MinimalAt(Live, pq.less) :
                        \A j \in MinimalAt(Live, pq.less) : i <= j
           IN  /\ last'.item = Live[k]
               /\ Live' = [i \in 1..(n - 1) |-> IF i = k THEN Live[n] ELSE Live[i]]]_vars

\* C21 witness: a Pop has returned one of two or more equivalent elements and
\* has moved the last element into a slot before the last one: the freed slot
\* still holds that element, which is not equivalent to the one returned.
C21_Witness ==
    /\ last.op = "Pop" /\ ~last.err
    /\ pq.size >= 2
    /\ \E i \in 1..pq.size : Live[i].k = last.item.k /\ Live[i] # last.item
    /\ \E i \in 1..pq.size : Live[i] = heap[pq.data.ref][pq.size + 1]
    /\ heap[pq.data.ref][pq.size + 1].k # last.item.k

\* C22: SortWithStrategy(CountingStrategy) on an integer-tagged queue whose
\* range max - min is more than 10000 returns and leaves exactly the buffers
\* that SortWithStrategy(QuickStrategy) leaves from the same state, the live
\* prefix in comparator order; with a range of exactly 10000 a queue of ints
\* is still sorted by value, whatever the comparator.
C22_CountingFallsBackOverRange ==
    [][(last'.op = "SortWithStrategy" /\ last'.strategy = "CountingStrategy"
        /\ pq.dataType = "IntegerType" /\ pq.size >= 2) =>
           /\ KeyRange(Live) > 10000 =>
                  /\ ~panicked'
                  /\ heap' = SortWithStrategy(heap, pq, "QuickStrategy", elemType).heap
                  /\ NonDecreasing(Live', pq.less)
           /\ (KeyRange(Live) = 10000 /\ elemType = "int") =>
                  /\ ~panicked'
                  /\ Ascending(Live')]_vars

\* C23: on an integer-tagged queue, SortWithStrategy(CountingStrategy) with a
\* range of at most 10000 and SortWithStrategy(RadixStrategy) on non-negative
\* values return, leave the live prefix in ascending numeric order with the
\* same elements, and leave the same buffers whatever comparator the queue was
\* built with.
C23_FastPathsIgnoreComparator ==
    [][(/\ last'.op = "SortWithStrategy"
        /\ pq.dataType = "IntegerType" /\ pq.size >= 2 
        /\ \/ last'.strategy = "CountingStrategy" /\ KeyRange(Live) <= 10000
           \/ last'.strategy = "RadixStrategy" /\ \A i \in 1..pq.size : Live[i].k >= 0) =>
           /\ ~panicked'
           /\ Ascending(Live')
           /\ BagOf(Live') = BagOf(Live)
           /\ \A other \in Comparators :
                  SortWithStrategy(heap, [pq EXCEPT !.less = other],
                                   last'.strategy, elemType).heap = heap']_vars

\* The number of adjacent inversions of q.
Inversions(q, lt) == Cardinality({i \in 1..(Len(q) - 1) : Less(lt, q[i + 1], q[i])})

\* max(1, floor(n / 10))
Tenth(n) == IF n \div 10 < 1 THEN 1 ELSE n \div 10

\* C24: isNearlySorted returns true exactly when size <= 1 or the number of
\* adjacent inversions is at most max(1, floor(size / 10)); when it returns
\* false it has counted one inversion more than that and no further; and the
\* buffer is as it was.
C24_NearlySortedCountsInversions ==
    last.op = "isNearlySorted" =>
        LET n    == pq.size
            scan == InversionLoop([inversions |-> 0, returned |-> FALSE], 0, n - 1,
                                  heap[pq.data.ref], Tenth(n), pq.less)
        IN  /\ last.result = (n <= 1 \/ Inversions(Live, pq.less) <= Tenth(n))
            /\ last.result = NearlySorted(Live, pq.less)
            /\ (~last.result) => (scan.returned /\ scan.inversions = Tenth(n) + 1)
            /\ (last.result /\ n > 1) =>
                   (~scan.returned /\ scan.inversions = Inversions(Live, pq.less))
            /\ Live = Source
            /\ ~panicked

\* C24 witness: the test has returned true on a queue with exactly as many
\* inversions as the threshold allows, one, under a threshold floored to 1.
C24_Witness ==
    /\ last.op = "isNearlySorted"
    /\ last.result
    /\ pq.size \in 2..9
    /\ Inversions(Live, pq.less) = 1

\* floor(log2(n)) for n >= 1
Log2Floor(n) == CHOOSE k \in 0..n : 2^k <= n /\ n < 2^(k + 1)

\* d with every slot outside [low, high] holding x.
Mask(d, low, high, x) ==
    [i \in 1..Len(d) |-> IF low + 1 <= i /\ i <= high + 1 THEN d[i] ELSE x]

\* An element less than, and one greater than, every element of an input.
Outsiders == {El(0 - 1000000, 0), El(1000000, 0)}

\* The call did(low, high) on d leaves the slots outside [low, high] as they
\* are, and what it leaves inside does not depend on what they hold.
RangeLocal(did, d, low, high, lt) ==
    LET f(b) == IF did = "heapSortRange" THEN heapSortRange(b, low, high, lt)
                ELSE insertionSortRange(b, low, high, lt)
        r    == f(d)
    IN  /\ \A i \in 1..Len(d) : (i < low + 1 \/ i > high + 1) => r[i] = d[i]
        /\ \A x \in Outsiders :
               f(Mask(d, low, high, x)) = Mask(r, low, high, x)

\* C25: in an Introsort on n elements the first call of introsortRange is on
\* [0, n-1] with budget 2 * floor(log2(n)); a call partitions only a range of
\* more than 16 elements with a positive budget, and then calls itself on the
\* two sides of the pivot with the budget less one; a range of at most 16
\* elements goes to insertionSortRange and a larger one with budget 0 to
\* heapSortRange; and those two, on the ranges they are called with, leave
\* every slot outside the range as it is and do not depend on it.
C25_IntrosortStructure ==
    (last.op = "SortWithStrategy" /\ last.strategy = "IntrosortStrategy"
     /\ src.len >= 2) =>
        LET n     == src.len
            run   == introsortRun(Source, n, pq.less)
            calls == run.calls
            Width(e) == e.high - e.low + 1
            Child(e, low, high, depth) ==
                e.low = low /\ e.high = high /\ e.depth = depth
        IN  /\ Live = SubSeq(run.d, 1, n)
            /\ Child(calls[1], 0, n - 1, 2 * Log2Floor(n))
            /\ \A c \in 1..Len(calls) :
                   LET e == calls[c]
                   IN  /\ e.depth >= 0
                       /\ e.did = "partition" =>
                              /\ Width(e) > 16 /\ e.depth > 0
                              /\ e.low <= e.pi /\ e.pi <= e.high
                              /\ \E a, b \in (c + 1)..Len(calls) :
                                     /\ a < b
                                     /\ Child(calls[a], e.low, e.pi - 1, e.depth - 1)
                                     /\ Child(calls[b], e.pi + 1, e.high, e.depth - 1)
                       /\ Width(e) <= 16 => e.did = "insertionSortRange"
                       /\ (Width(e) > 16 /\ e.depth = 0) => e.did = "heapSortRange"
                       /\ c > 1 =>
                              \E p \in 1..(c - 1) :
                                  /\ calls[p].did = "partition"
                                  /\ \/ Child(e, calls[p].low, calls[p].pi - 1,
                                              calls[p].depth - 1)
                                     \/ Child(e, calls[p].pi + 1, calls[p].high,
                                              calls[p].depth - 1)
                       /\ (e.did # "partition" /\ e.low <= e.high) =>
                              RangeLocal(e.did, Source, e.low, e.high, pq.less)

\* C25 witness: an Introsort of more than 100 elements that were not in order
\* has partitioned, has run out of budget and called heapSortRange, has called
\* insertionSortRange on a range of two or more elements, and has sorted.
C25_Witness ==
    /\ last.op = "SortWithStrategy" /\ last.strategy = "IntrosortStrategy"
    /\ src.len > 100
    /\ ~NonDecreasing(Source, pq.less)
    /\ NonDecreasing(Live, pq.less)
    /\ LET calls == introsortRun(Source, src.len, pq.less).calls
       IN  /\ \E c \in 1..Len(calls) : calls[c].did = "heapSortRange"
           /\ \E c \in 1..Len(calls) :
                  calls[c].did = "insertionSortRange" /\ calls[c].low < calls[c].high

\* Every segment [runs[k], runs[k+1]) of d is non-decreasing.
SegmentsSorted(d, runs, lt) ==
    \A k \in 1..(Len(runs) - 1) :
        NonDecreasing(SubSeq(d, runs[k] + 1, runs[k + 1]), lt)

\* The boundaries left by one pass over runs: every second one, and the last.
PassBoundaries(runs) ==
    LET L    == Len(runs)
        kept == (L + 1) \div 2
    IN  [j \in 1..(kept + IF L % 2 = 0 THEN 1 ELSE 0) |->
            IF j <= kept THEN runs[2 * j - 1] ELSE runs[L]]

RECURSIVE PassesMergePairs(_, _, _, _)
\* Each pass from (d, runs) on merges the segments in pairs, leaves a last
\* segment without a partner as it is, and keeps the elements; the passes end
\* with the one segment [0, n) sorted.
PassesMergePairs(d, runs, n, lt) ==
    IF Len(runs) > 2
    THEN LET p == MergePass(d, runs, lt)
             L == Len(runs)
         IN  /\ p.runs = PassBoundaries(runs)
             /\ SegmentsSorted(p.d, p.runs, lt)
             /\ BagOf(p.d) = BagOf(d)
             /\ L % 2 = 0 =>
                    SubSeq(p.d, runs[L - 1] + 1, runs[L]) = SubSeq(d, runs[L - 1] + 1, runs[L])
             /\ PassesMergePairs(p.d, p.runs, n, lt)
    ELSE /\ runs = <<0, n>>
         /\ NonDecreasing(SubSeq(d, 1, n), lt)
         /\ mergeRuns(d, runs, lt) = d

\* C26: for size > 32, findRuns returns boundaries that start with 0, end with
\* size and increase strictly, and leaves every segment between two of them
\* non-decreasing; each pass of mergeRuns merges the segments in pairs and
\* carries a last segment without a partner forward as it is, and the passes
\* end with the single segment [0, size) sorted, which is what Timsort leaves.
C26_RunsFoundAndMerged ==
    (last.op = "SortWithStrategy" /\ last.strategy = "TimsortStrategy"
     /\ src.len > 32) =>
        LET n == src.len
            r == findRuns(Source, n, pq.less)
        IN  /\ r.runs[1] = 0
            /\ r.runs[Len(r.runs)] = n
            /\ \A k \in 1..(Len(r.runs) - 1) : r.runs[k] < r.runs[k + 1]
            /\ SegmentsSorted(r.d, r.runs, pq.less)
            /\ BagOf(r.d) = BagOf(Source)
            /\ PassesMergePairs(r.d, r.runs, n, pq.less)
            /\ Live = SubSeq(mergeRuns(r.d, r.runs, pq.less), 1, n)
            /\ NonDecreasing(Live, pq.less)

\* C26 witness: a Timsort of more than 32 elements in which findRuns has
\* reversed a run and has found an odd number of segments, four or more.
C26_Witness ==
    /\ last.op = "SortWithStrategy" /\ last.strategy = "TimsortStrategy"
    /\ src.len > 32
    /\ LET r == findRuns(Source, src.len, pq.less)
       IN  /\ r.d # Source
           /\ Len(r.runs) >= 6
           /\ Len(r.runs) % 2 = 0
    /\ NonDecreasing(Live, pq.less)


\* What a pending call or loop has left to do: the size of its range, the
\* iterations its loop has left, or the number of run boundaries.
Rank(f, runs) ==
    CASE f.fn \in {"quickSortRange", "mergeSortRange", "introsortRange"} ->
             f.high - f.low + 1
      [] f.fn \in {"insertionSort", "insertionSortRange", "heapify", "findRuns"} ->
             IF f.x > f.high THEN 0 ELSE f.high + 1 - f.x
      [] f.fn = "heapSortRange build" -> f.x + 1
      [] f.fn = "heapSortRange extract" -> f.x
      [] f.fn = "mergeRuns" -> Len(runs)
      [] OTHER -> 0

\* The calls and loop states that a step put on the stack.
Pushed == SubSeq(call'.stack, 1, Len(call'.stack) - (Len(call.stack) - 1))

\* A step in the middle of a sort call.
InnerStep == call.pc = "running" /\ call'.pc = "running" /\ call.stack # << >>

\* The result of the call as the sorts compute it in one piece.
SortedInOnePiece ==
    sortBuffer(heap[src.ref], pq.size, pq.less, pq.dataType, call.strategy, elemType).d

\* C27: under the ascending and the descending comparator (strict weak
\* orders), every SortWithStrategy call with Insertion, Quick, Merge, Introsort
\* or Timsort returns: a call that was entered leads to its return; every call
\* that quickSortRange, introsortRange, mergeSortRange and heapify make of
\* themselves is on a strictly smaller range, every loop iteration leaves
\* fewer iterations, and a mergeRuns pass leaves fewer run boundaries.
C27_SortsTerminate ==
    /\ [][InnerStep =>
            \A i \in 1..Len(Pushed) :
                /\ Rank(Pushed[i], call'.runs) >= 0
                /\ Pushed[i].fn = Head(call.stack).fn =>
                       Rank(Pushed[i], call'.runs) < Rank(Head(call.stack), call.runs)]_vars
    /\ [](call.pc = "returned" => Live = SubSeq(SortedInOnePiece, 1, pq.size))
    /\ (call.pc = "running") ~> (call.pc = "returned")

\* An introsort call of 33 elements that went through heapSortRange returned.
C27_Witness ==
    /\ call.pc = "returned"
    /\ call.strategy = "IntrosortStrategy"
    /\ pq.size = 33
    /\ \E c \in 1..Len(introsortRun(heap[src.ref], pq.size, pq.less).calls) :
           introsortRun(heap[src.ref], pq.size, pq.less).calls[c].did = "heapSortRange"

\* C28: from any state that calls of Push, Pop and Sort reach, with n live
\* elements, a caller that keeps calling Pop() gets n results and then the
\* empty-queue error: no result is less, under the comparator, than an earlier
\* one, the results never outnumber n, each Pop leaves one element fewer, and
\* at the error the results are exactly the elements that were live.
C28_PopsDrainInOrder ==
    /\ [](drain.on =>
            /\ Len(drain.got) <= drain.n
            /\ \A i, j \in 1..Len(drain.got) :
                   i < j => ~Less(pq.less, drain.got[j], drain.got[i])
            /\ ~drain.failed => pq.size = drain.n - Len(drain.got)
            /\ drain.failed =>
                   /\ Len(drain.got) = drain.n
                   /\ BagOf(drain.got) = drain.live
                   /\ last.op = "Pop" /\ last.err)
    /\ drain.on ~> drain.failed

\* Three Pops emptied a queue that held equivalent elements and a smaller
\* one after it, and the fourth failed.
C28_Witness ==
    /\ drain.failed
    /\ drain.n = 3
    /\ \E i \in 1..2 : drain.got[i].k = drain.got[i + 1].k /\ drain.got[i] # drain.got[i + 1]
    /\ drain.got[1].k # drain.got[3].k

\* The keys of the sequence q are pairwise distinct.
DistinctKeys(q) == \A i, j \in 1..Len(q) : i # j => q[i].k # q[j].k

\* The Pop() step that follows Sort() on the buffer d with n live elements
\* returns d[0], puts d[n-1], an element that none is greater than, at index
\* 0 and leaves the indices 1..n-2 alone.
PopAfterSort(d, n) ==
    /\ ~last'.err
    /\ last'.item = Get(d, 0)
    /\ pq'.size = n - 1
    /\ \A i \in 0..(n - 1) : ~Less(pq.less, Get(d, n - 1), Get(d, i))
    /\ n >= 2 => Get(heap'[pq.data.ref], 0) = Get(d, n - 1)
    /\ \A i \in 1..(n - 2) : Get(heap'[pq.data.ref], i) = Get(d, i)

\* C29: after Sort() on a queue of n >= 1 elements, Pop() returns the element
\* at index 0 and moves the element of index n-1, a comparator-maximal one, to
\* index 0, indices 1..n-2 keeping their elements; and when the n keys were
\* pairwise distinct and n >= 3, the slice that ToSlice() returns after the
\* Pop is not in comparator order.
C29_PopAfterSortUnsorts ==
    /\ [][last.op = "Sort" /\ last'.op = "Pop" /\ pq.size >= 1 =>
            PopAfterSort(heap[pq.data.ref], pq.size)]_vars
    /\ [][(/\ last.op = "Pop" /\ last'.op = "ToSlice"
            /\ pq.size >= 2
            /\ DistinctKeys(Append(Live, last.item)))
           => ~NonDecreasing(View(heap', out'), pq.less)]_vars

\* The same for the queues that Sort() never sends to the integer sorts:
\* records, and ints up to 100 elements.
C29_OffTheIntegerPaths ==
    /\ [][(/\ last.op = "Sort" /\ last'.op = "Pop" /\ pq.size >= 1
            /\ ~(pq.dataType = "IntegerType" /\ pq.size > IntegerMinN))
           => PopAfterSort(heap[pq.data.ref], pq.size)]_vars
    /\ [][(/\ last.op = "Pop" /\ last'.op = "ToSlice"
            /\ pq.size >= 2
            /\ ~(pq.dataType = "IntegerType" /\ pq.size >= IntegerMinN)
            /\ DistinctKeys(Append(Live, last.item)))
           => ~NonDecreasing(View(heap', out'), pq.less)]_vars
=============================================================================
